---------------------------- MODULE Spec2Model ----------------------------
(***************************************************************************)
(* A model of rvemu's core: the hart's fetch-decode-execute step           *)
(* (hart.rs), the RV64I / Zicsr / Zifencei decoders and executors          *)
(* (insn/*.rs), guest memory (guest.rs), the minimal syscall handler       *)
(* (syscall/minilib.rs) and the run/step/debug controller (emulator.rs,    *)
(* debug.rs).                                                              *)
(*                                                                         *)
(* Number representation.  TLC's integers are 32-bit, so a Rust u64 is     *)
(* kept as four 16-bit limbs <<l0, l1, l2, l3>> (l0 least significant) and *)
(* a u32 instruction word or immediate is kept as a u64 whose two upper    *)
(* limbs are 0.  Every arithmetic operator below computes the exact result *)
(* of the Rust operation modulo 2^64.                                      *)
(***************************************************************************)
EXTENDS Integers, Sequences, FiniteSets, TLC

\* ------------------------------------------------------------------ bounds
\* Loop iterations of run / run_debug explored by Spec.
MaxLoops == 6
\* Loop iterations of run_debug explored by SpecPoll (past two poll points).
MaxPollLoops == 2050
\* Loop iterations of run / run_debug explored by SpecDbg.
MaxDbgLoops == 2
\* Calls of add_segment explored by SpecSeg.
MaxAdds == 3
\* Byte writes explored by SpecSeg.
MaxSegWrites == 1
\* Writes explored by SpecRW.
MaxRWWrites == 2
\* Calls of load_elf explored by SpecElf and SpecBuild.
MaxLoads == 1
\* Calls of decoder(set) on one builder.
MaxDecoders == 2

\* ------------------------------------------------------- u64 arithmetic
LIMB == 2 ^ 16

Zero == <<0, 0, 0, 0>>

\* The u64 of a natural number below 2^31.
U(n) == <<n % LIMB, n \div LIMB, 0, 0>>

\* The u64 0x(hi)(lo) of a 32-bit word given by its two 16-bit halves.
W(hi, lo) == <<lo, hi, 0, 0>>

AllOnes == <<65535, 65535, 65535, 65535>>

\* Bit i (0..63) of a u64.
Bit(v, i) == (v[(i \div 16) + 1] \div (2 ^ (i % 16))) % 2

RECURSIVE LimbOfBits(_, _, _)
LimbOfBits(f, j, k) ==
    IF k = 16 THEN 0 ELSE f[16 * j + k] * (2 ^ k) + LimbOfBits(f, j, k + 1)

\* The u64 whose bit i is f[i], f a function on 0..63.
FromBits(f) == <<LimbOfBits(f, 0, 0), LimbOfBits(f, 1, 0),
                 LimbOfBits(f, 2, 0), LimbOfBits(f, 3, 0)>>

\* u64::wrapping_add (and i64::wrapping_add: the same bits).
WrappingAdd(a, b) ==
    LET s0 == a[1] + b[1]
        s1 == a[2] + b[2] + (s0 \div LIMB)
        s2 == a[3] + b[3] + (s1 \div LIMB)
        s3 == a[4] + b[4] + (s2 \div LIMB)
    IN  <<s0 % LIMB, s1 % LIMB, s2 % LIMB, s3 % LIMB>>

\* Bitwise not.
Not64(a) == <<65535 - a[1], 65535 - a[2], 65535 - a[3], 65535 - a[4]>>

\* u64::wrapping_sub.
WrappingSub(a, b) == WrappingAdd(WrappingAdd(a, Not64(b)), U(1))

And64(a, b) == FromBits([i \in 0..63 |-> Bit(a, i) * Bit(b, i)])
Or64(a, b)  == FromBits([i \in 0..63 |->
                   IF Bit(a, i) + Bit(b, i) > 0 THEN 1 ELSE 0])
Xor64(a, b) == FromBits([i \in 0..63 |-> (Bit(a, i) + Bit(b, i)) % 2])

\* a << n, a >> n (logical) and (a as i64) >> n, for 0 <= n <= 63.
Shl64(a, n) == FromBits([i \in 0..63 |-> IF i >= n THEN Bit(a, i - n) ELSE 0])
Shr64(a, n) == FromBits([i \in 0..63 |->
                   IF i + n <= 63 THEN Bit(a, i + n) ELSE 0])
Sar64(a, n) == FromBits([i \in 0..63 |->
                   IF i + n <= 63 THEN Bit(a, i + n) ELSE Bit(a, 63)])

\* Unsigned a < b.
LtU(a, b) ==
    \/ a[4] < b[4]
    \/ a[4] = b[4] /\ a[3] < b[3]
    \/ a[4] = b[4] /\ a[3] = b[3] /\ a[2] < b[2]
    \/ a[4] = b[4] /\ a[3] = b[3] /\ a[2] = b[2] /\ a[1] < b[1]

LeU(a, b) == a = b \/ LtU(a, b)

\* Signed (as i64) a < b.
LtS(a, b) ==
    IF Bit(a, 63) # Bit(b, 63) THEN Bit(a, 63) = 1 ELSE LtU(a, b)

\* sign_extend!(val, bits): ((val as i64) << (64 - bits)) >> (64 - bits).
sign_extend(val, bits) == Sar64(Shl64(val, 64 - bits), 64 - bits)

\* zero_extend!(val, bits): (val as u64) & ((1u64 << bits) - 1).
zero_extend(val, bits) ==
    And64(val, WrappingSub(Shl64(U(1), bits), U(1)))

\* The natural number of a u64 below 2^31 (an offset into a host mapping).
ToNat(v) == v[1] + LIMB * v[2]

RECURSIVE MaxU(_)
\* The greatest element of a non-empty finite set of u64 values.
MaxU(S) ==
    LET e == CHOOSE z \in S : TRUE
    IN  IF S = {e} THEN e
        ELSE LET m == MaxU(S \ {e}) IN IF LtU(m, e) THEN e ELSE m


\* ------------------------------------------------------------- errors
\* An Error value (error.rs): its variant, and the variant's fields (an access
\* kind and up to two u64; unused fields are "" and Zero).
Error(kind, acc, v, w) == [kind |-> kind, acc |-> acc, v |-> v, w |-> w]

NoError == Error("", "", Zero, Zero)

\* ------------------------------------------------------- guest memory
PAGE_SIZE == 4096

round_up(val, align) == And64(WrappingAdd(val, U(align - 1)), Not64(U(align - 1)))

round_down(val, align) == And64(val, Not64(U(align - 1)))

\* GuestMem::new.  segments is the BTreeMap, a function from m_gaddr_start.
GuestMemNew ==
    [segments |-> << >>, init_brk_gaddr |-> Zero, cur_brk_gaddr |-> Zero,
     stk_base_gaddr |-> Zero, stk_size |-> 0]

\* MemSegment::contains.
contains(seg, guest_addr) ==
    LeU(seg.gaddr_start, guest_addr) /\ LtU(guest_addr, seg.m_gaddr_end)

\* MemSegment::allows.
allows(seg, access) ==
    CASE access = "Read"    -> "READ" \in seg.flags
      [] access = "Write"   -> "WRITE" \in seg.flags
      [] access = "Execute" -> "EXECUTE" \in seg.flags

\* GuestMem::decompose / decompose_mut: the keys <= gaddr are walked from the
\* greatest down and the first segment that contains gaddr decides.
decompose(guest, gaddr, access) ==
    LET Decide(k) ==
            IF allows(guest.segments[k], access)
            THEN [ok |-> TRUE, err |-> NoError, base |-> k]
            ELSE [ok |-> FALSE, err |-> Error("PermissionDenied", "", Zero, Zero),
                  base |-> k]
        Among(keys) ==
            IF keys = {}
            THEN [ok |-> FALSE, err |-> Error("MemAccessFault", access, gaddr, Zero),
                  base |-> Zero]
            ELSE Decide(MaxU(keys))
    IN  Among({k \in DOMAIN guest.segments :
                  LeU(k, gaddr) /\ contains(guest.segments[k], gaddr)})

\* A byte of a host mapping.  The anonymous mapping is zero-filled, so it is
\* kept as the function of the offsets written so far; any other offset is 0.
HostByte(mmap, off) == IF off \in DOMAIN mmap THEN mmap[off] ELSE 0

HostStore(mmap, off, b) ==
    [o \in (DOMAIN mmap) \cup {off} |-> IF o = off THEN b ELSE mmap[o]]

\* GuestMem::read_u8.
read_u8(guest, gaddr) ==
    LET At(d) ==
            IF ~d.ok THEN [ok |-> FALSE, err |-> d.err, val |-> 0]
            ELSE LET seg == guest.segments[d.base]
                     offset == ToNat(WrappingSub(gaddr, seg.m_gaddr_start))
                 IN  [ok |-> TRUE, err |-> NoError,
                      val |-> HostByte(seg.host_mmap, offset)]
    IN  At(decompose(guest, gaddr, "Read"))

\* GuestMem::write_u8.
write_u8(guest, gaddr, value) ==
    LET At(d) ==
            IF ~d.ok THEN [ok |-> FALSE, err |-> d.err, guest |-> guest]
            ELSE LET seg == guest.segments[d.base]
                     offset == ToNat(WrappingSub(gaddr, seg.m_gaddr_start))
                 IN  [ok |-> TRUE, err |-> NoError,
                      guest |-> [guest EXCEPT !.segments[d.base].host_mmap =
                                     HostStore(seg.host_mmap, offset, value)]]
    IN  At(decompose(guest, gaddr, "Write"))

\* Byte i (0..7) of a u64, little-endian.
ByteOf(v, i) == (v[(i \div 2) + 1] \div (IF i % 2 = 0 THEN 1 ELSE 256)) % 256

RECURSIVE ReadBytes(_, _, _, _)
\* The byte-by-byte read of n bytes from gaddr on, i done so far: the value
\* read (as a function from byte index), or the first byte's error.
ReadBytes(guest, gaddr, n, i) ==
    LET Then(b, rest) ==
            IF ~rest.ok THEN rest
            ELSE [ok |-> TRUE, err |-> NoError, bytes |-> <<b.val>> \o rest.bytes]
        First(b) ==
            IF ~b.ok THEN [ok |-> FALSE, err |-> b.err, bytes |-> << >>]
            ELSE Then(b, ReadBytes(guest, gaddr, n, i + 1))
    IN  IF i = n THEN [ok |-> TRUE, err |-> NoError, bytes |-> << >>]
        ELSE First(read_u8(guest, WrappingAdd(gaddr, U(i))))

\* The u64 of up to 8 little-endian bytes.
FromLeBytes(bs) ==
    LET B(i) == IF i <= Len(bs) THEN bs[i] ELSE 0
    IN  <<B(1) + 256 * B(2), B(3) + 256 * B(4),
          B(5) + 256 * B(6), B(7) + 256 * B(8)>>

ReadUN(guest, gaddr, n) ==
    LET Of(r) == IF ~r.ok THEN [ok |-> FALSE, err |-> r.err, val |-> Zero]
                 ELSE [ok |-> TRUE, err |-> NoError, val |-> FromLeBytes(r.bytes)]
    IN  Of(ReadBytes(guest, gaddr, n, 0))

\* GuestMem::read_u16 / read_u32 / read_u64.
read_u16(guest, gaddr) == ReadUN(guest, gaddr, 2)
read_u32(guest, gaddr) == ReadUN(guest, gaddr, 4)
read_u64(guest, gaddr) == ReadUN(guest, gaddr, 8)

RECURSIVE WriteBytes(_, _, _, _, _)
\* The byte-by-byte write of the low n bytes of value: the bytes before a
\* failing byte stay written.
WriteBytes(guest, gaddr, value, n, i) ==
    LET Then(w) == IF ~w.ok THEN w ELSE WriteBytes(w.guest, gaddr, value, n, i + 1)
    IN  IF i = n THEN [ok |-> TRUE, err |-> NoError, guest |-> guest]
        ELSE Then(write_u8(guest, WrappingAdd(gaddr, U(i)), ByteOf(value, i)))

\* GuestMem::write_u16 / write_u32 / write_u64.
write_u16(guest, gaddr, value) == WriteBytes(guest, gaddr, value, 2, 0)
write_u32(guest, gaddr, value) == WriteBytes(guest, gaddr, value, 4, 0)
write_u64(guest, gaddr, value) == WriteBytes(guest, gaddr, value, 8, 0)

\* The overlap test of add_segment against one existing segment.
SegOverlaps(m_gaddr_start, m_gaddr_end, seg) ==
    \/ LtU(m_gaddr_start, seg.gaddr_start) /\ LtU(seg.gaddr_start, m_gaddr_end)
    \/ LtU(m_gaddr_start, seg.gaddr_end) /\ LtU(seg.gaddr_end, m_gaddr_end)
    \/ LeU(seg.gaddr_start, m_gaddr_start) /\ LeU(m_gaddr_end, seg.gaddr_end)
    \/ LeU(m_gaddr_start, seg.gaddr_start) /\ LeU(seg.gaddr_end, m_gaddr_end)

\* a + b does not fit a u64: the sum panics where overflow checks are
\* compiled in (a debug build) and wraps where they are not.
AddOverflows(a, b) == LtU(WrappingAdd(a, b), a)

\* GuestMem::add_segment; init_data is a sequence of bytes, or << >> with
\* has_data FALSE for None.  len is below 2^31.  checked tells whether the
\* build has overflow checks, mapped whether the host grants the mapping.
\* m_len is the length of the host mapping, of which host_mmap holds the
\* bytes that are not zero-filled.
add_segment(guest, gaddr_start, len, flags, has_data, init_data, checked, mapped) ==
    IF len = 0 THEN [ok |-> FALSE, panic |-> TRUE, err |-> NoError, guest |-> guest]
    ELSE
    LET gaddr_end == WrappingAdd(gaddr_start, U(len))
        m_gaddr_start == round_down(gaddr_start, PAGE_SIZE)
        m_gaddr_end == round_up(gaddr_end, PAGE_SIZE)
        off == ToNat(WrappingSub(gaddr_start, m_gaddr_start))
        segment == [gaddr_start |-> gaddr_start, gaddr_end |-> gaddr_end,
                    m_gaddr_start |-> m_gaddr_start, m_gaddr_end |-> m_gaddr_end,
                    flags |-> flags,
                    m_len |-> WrappingSub(m_gaddr_end, m_gaddr_start),
                    host_mmap |-> [o \in {off + i - 1 : i \in 1..Len(init_data)}
                                      |-> init_data[o - off + 1]]]
        keys == DOMAIN guest.segments
    IN  IF checked /\ (\/ AddOverflows(gaddr_start, U(len))
                       \/ AddOverflows(gaddr_end, U(PAGE_SIZE - 1)))
        THEN [ok |-> FALSE, panic |-> TRUE, err |-> NoError, guest |-> guest]
        ELSE IF \E k \in keys : SegOverlaps(m_gaddr_start, m_gaddr_end, guest.segments[k])
        THEN [ok |-> FALSE, panic |-> FALSE,
              err |-> Error("SegmentOverlap", "", Zero, Zero), guest |-> guest]
        ELSE IF ~mapped
        THEN [ok |-> FALSE, panic |-> FALSE,
              err |-> Error("InternalError", "", Zero, Zero), guest |-> guest]
        ELSE IF ~LtU(gaddr_start, gaddr_end)
        THEN [ok |-> FALSE, panic |-> TRUE, err |-> NoError, guest |-> guest]
        ELSE IF has_data /\ Len(init_data) > len
        THEN [ok |-> FALSE, panic |-> FALSE,
              err |-> Error("OutOfBounds", "", Zero, Zero), guest |-> guest]
        ELSE [ok |-> TRUE, panic |-> FALSE, err |-> NoError,
              guest |-> [guest EXCEPT !.segments =
                  [k \in keys \cup {m_gaddr_start} |->
                      IF k = m_gaddr_start THEN segment ELSE guest.segments[k]]]]


\* ---------------------------------------------------------- ELF loading
PT_LOAD == 1
PF_X == 1
PF_W == 2
PF_R == 4

\* MemFlags::from_p_flags.
from_p_flags(p_flags) ==
    (IF (p_flags \div PF_R) % 2 # 0 THEN {"READ"} ELSE {})
    \cup (IF (p_flags \div PF_W) % 2 # 0 THEN {"WRITE"} ELSE {})
    \cup (IF (p_flags \div PF_X) % 2 # 0 THEN {"EXECUTE"} ELSE {})

\* A program header as ProgramHeader::from_bytes reads it, with the file
\* bytes [p_offset, p_offset + p_filesz) it names (in_file tells whether that
\* range lies in the file).  p_filesz is Len(data); p_memsz is below 2^31.
ProgramHeader(p_type, p_flags, p_vaddr, p_memsz, data, in_file) ==
    [p_type |-> p_type, p_flags |-> p_flags, p_vaddr |-> p_vaddr,
     p_memsz |-> p_memsz, data |-> data, in_file |-> in_file]

\* An ELF file: whether it is as long as a header, whether the header has the
\* magic, class and machine ElfHeader::from_bytes wants, e_entry and the
\* program headers.
Elf(long, valid, e_entry, phdrs) ==
    [long |-> long, valid |-> valid, e_entry |-> e_entry, phdrs |-> phdrs]

NoElf == Elf(FALSE, FALSE, Zero, << >>)

\* What load_elf leaves: kind is "Ok" (with the entry), "Err" or "Panic".
ElfOut(kind, err, entry, guest) ==
    [kind |-> kind, err |-> err, entry |-> entry, guest |-> guest]

RECURSIVE LoadSegments(_, _, _, _, _)
\* The loop of load_elf over the program headers, from header i on.
LoadSegments(guest, phdrs, i, checked, mapped) ==
    LET phdr == phdrs[i]
        Added(r) ==
            CASE r.panic -> ElfOut("Panic", NoError, Zero, r.guest)
              [] ~r.ok -> ElfOut("Err", r.err, Zero, r.guest)
              [] OTHER -> LoadSegments(r.guest, phdrs, i + 1, checked, mapped)
    IN  IF i > Len(phdrs) THEN ElfOut("Ok", NoError, Zero, guest)
        ELSE IF phdr.p_type # PT_LOAD
        THEN LoadSegments(guest, phdrs, i + 1, checked, mapped)
        ELSE IF ~phdr.in_file THEN ElfOut("Panic", NoError, Zero, guest)
        ELSE Added(add_segment(guest, phdr.p_vaddr, phdr.p_memsz,
                               from_p_flags(phdr.p_flags), TRUE, phdr.data,
                               checked, mapped))

\* GuestMem::load_elf.
load_elf(guest, elf, checked, mapped) ==
    LET Loaded(l) ==
            IF l.kind # "Ok" THEN l
            ELSE LET ends == {l.guest.segments[k].m_gaddr_end :
                                 k \in DOMAIN l.guest.segments}
                     init_brk_gaddr == IF ends = {} THEN Zero ELSE MaxU(ends)
                 IN  ElfOut("Ok", NoError, elf.e_entry,
                            [l.guest EXCEPT !.init_brk_gaddr = init_brk_gaddr,
                                            !.cur_brk_gaddr = init_brk_gaddr])
    IN  IF ~elf.long THEN ElfOut("Err", Error("InvalidElfHdr", "", Zero, Zero), Zero, guest)
        ELSE IF ~elf.valid
        THEN ElfOut("Err", Error("InvalidElf", "", Zero, Zero), Zero, guest)
        ELSE Loaded(LoadSegments(guest, elf.phdrs, 1, checked, mapped))

\* ------------------------------------------------ architectural state
\* State::default (state.rs): pc, the 32 registers, the trap latch.
StateDefault == [pc |-> Zero, x |-> [i \in 0..31 |-> Zero], break_on |-> "None"]

\* ------------------------------------------------------- instructions
RECURSIVE BitsOf(_, _, _)
\* (v >> lo) & (2^n - 1) as a natural number, n <= 30.
BitsOf(v, lo, n) == IF n = 0 THEN 0 ELSE Bit(v, lo) + 2 * BitsOf(v, lo + 1, n - 1)

\* An extraction that sign-extends the I immediate and leaves bit 11 of the
\* B immediate where it is in the word.
ExtractImmSigned(raw, insn_type) ==
    CASE insn_type = "I" -> sign_extend(U(BitsOf(raw, 20, 12)), 12)
      [] insn_type = "S" -> U(BitsOf(raw, 25, 7) * 32 + BitsOf(raw, 7, 5))
      [] insn_type = "B" -> U(BitsOf(raw, 31, 1) * 4096 + BitsOf(raw, 25, 6) * 32
                              + BitsOf(raw, 7, 5))
      [] insn_type = "U" -> <<raw[1] - (raw[1] % 4096), raw[2], 0, 0>>
      [] insn_type = "J" -> U(BitsOf(raw, 31, 1) * 1048576 + BitsOf(raw, 21, 10) * 2
                              + BitsOf(raw, 20, 1) * 2048 + BitsOf(raw, 12, 8) * 4096)

\* Instruction::extract_imm: the immediate, not sign-extended.
extract_imm(raw, insn_type) ==
    CASE insn_type = "I" -> U(BitsOf(raw, 20, 12))
      [] insn_type = "S" -> U(BitsOf(raw, 25, 7) * 32 + BitsOf(raw, 7, 5))
      [] insn_type = "B" -> U(BitsOf(raw, 31, 1) * 4096 + BitsOf(raw, 25, 6) * 32
                              + BitsOf(raw, 8, 4) * 2 + BitsOf(raw, 7, 1) * 2048)
      [] insn_type = "U" -> <<raw[1] - (raw[1] % 4096), raw[2], 0, 0>>
      [] insn_type = "J" -> U(BitsOf(raw, 31, 1) * 1048576 + BitsOf(raw, 21, 10) * 2
                              + BitsOf(raw, 20, 1) * 2048 + BitsOf(raw, 12, 8) * 4096)

\* Instruction::step_size.
step_size(insn) == IF insn.form = "C" THEN 2 ELSE 4

\* A decoded Instruction: its variant and the fields the variant carries
\* (the others are 0).
Insn(form, raw, opcode, rd, funct3, rs1, rs2, funct7, imm) ==
    [form |-> form, raw |-> raw, opcode |-> opcode, rd |-> rd, funct3 |-> funct3,
     rs1 |-> rs1, rs2 |-> rs2, funct7 |-> funct7, imm |-> imm]

NoInsn == Insn("", Zero, 0, 0, 0, 0, 0, 0, Zero)

\* What Decoder::decode gives: Ok(Some((insn, executor))), Ok(None), or a
\* panic (unimplemented!()).
DecSome(insn, executor) == [kind |-> "Some", insn |-> insn, executor |-> executor]
DecNone == [kind |-> "None", insn |-> NoInsn, executor |-> ""]
DecPanic == [kind |-> "Panic", insn |-> NoInsn, executor |-> ""]

RV64I_OPCODE_LOAD == 3
RV64I_OPCODE_STORE == 35
RV64I_OPCODE_OP_IMM == 19
RV64I_OPCODE_OP == 51
RV64I_OPCODE_BRANCH == 99
RV64I_OPCODE_WORD == 59
RV64I_OPCODE_JAL == 111
RV64I_OPCODE_JALR == 103
RV64I_OPCODE_LUI == 55
RV64I_OPCODE_AUIPC == 23
RV64I_OPCODE_SYSTEM == 115

\* Rv64IDecoder::decode.
Rv64IDecoder_decode(raw) ==
    LET opcode == BitsOf(raw, 0, 7)
        rd     == BitsOf(raw, 7, 5)
        funct3 == BitsOf(raw, 12, 3)
        rs1    == BitsOf(raw, 15, 5)
        rs2    == BitsOf(raw, 20, 5)
        funct7 == BitsOf(raw, 25, 7)
        imm_i  == extract_imm(raw, "I")
        imm_s  == extract_imm(raw, "S")
        imm_b  == extract_imm(raw, "B")
        imm_u  == extract_imm(raw, "U")
        imm_j  == extract_imm(raw, "J")
        IU == Insn("U", raw, opcode, rd, 0, 0, 0, 0, imm_u)
        II == Insn("I", raw, opcode, rd, funct3, rs1, 0, 0, imm_i)
        IS == Insn("S", raw, opcode, 0, funct3, rs1, rs2, 0, imm_s)
        IB == Insn("B", raw, opcode, 0, funct3, rs1, rs2, 0, imm_b)
        IJ == Insn("J", raw, opcode, rd, 0, 0, 0, 0, imm_j)
        IR == Insn("R", raw, opcode, rd, funct3, rs1, rs2, funct7, Zero)
    IN  CASE opcode = RV64I_OPCODE_LUI -> DecSome(IU, "rv64i_lui")
          [] opcode = RV64I_OPCODE_AUIPC -> DecSome(IU, "rv64i_auipc")
          [] opcode = RV64I_OPCODE_LOAD ->
               (CASE funct3 = 0 -> DecSome(II, "rv64i_lb")
                  [] funct3 = 1 -> DecSome(II, "rv64i_lh")
                  [] funct3 = 2 -> DecSome(II, "rv64i_lw")
                  [] funct3 = 3 -> DecSome(II, "rv64i_ld")
                  [] funct3 = 4 -> DecSome(II, "rv64i_lbu")
                  [] funct3 = 5 -> DecSome(II, "rv64i_lhu")
                  [] funct3 = 6 -> DecSome(II, "rv64i_lwu")
                  [] OTHER -> DecNone)
          [] opcode = RV64I_OPCODE_STORE ->
               (CASE funct3 = 0 -> DecSome(IS, "rv64i_sb")
                  [] funct3 = 1 -> DecSome(IS, "rv64i_sh")
                  [] funct3 = 2 -> DecSome(IS, "rv64i_sw")
                  [] funct3 = 3 -> DecSome(IS, "rv64i_sd")
                  [] OTHER -> DecNone)
          [] opcode = RV64I_OPCODE_OP_IMM ->
               (CASE funct3 = 0 -> DecSome(II, "rv64i_addi")
                  [] funct3 = 1 -> DecSome(II, "rv64i_slli")
                  [] funct3 = 2 -> DecSome(II, "rv64i_slti")
                  [] funct3 = 3 -> DecSome(II, "rv64i_sltiu")
                  [] funct3 = 4 -> DecSome(II, "rv64i_xori")
                  [] funct3 = 5 ->
                       (CASE funct7 = 0 -> DecSome(II, "rv64i_srli")
                          [] funct7 = 32 -> DecSome(II, "rv64i_srai")
                          [] OTHER -> DecNone)
                  [] funct3 = 6 -> DecSome(II, "rv64i_ori")
                  [] funct3 = 7 -> DecSome(II, "rv64i_andi"))
          [] opcode = RV64I_OPCODE_BRANCH ->
               (CASE funct3 = 0 -> DecSome(IB, "rv64i_beq")
                  [] funct3 = 1 -> DecSome(IB, "rv64i_bne")
                  [] funct3 = 4 -> DecSome(IB, "rv64i_blt")
                  [] funct3 = 5 -> DecSome(IB, "rv64i_bge")
                  [] funct3 = 6 -> DecSome(IB, "rv64i_bltu")
                  [] funct3 = 7 -> DecSome(IB, "rv64i_bgeu")
                  [] OTHER -> DecNone)
          [] opcode = RV64I_OPCODE_JAL -> DecSome(IJ, "rv64i_jal")
          [] opcode = RV64I_OPCODE_JALR ->
               IF funct3 = 0 THEN DecSome(II, "rv64i_jalr") ELSE DecNone
          [] opcode = RV64I_OPCODE_OP ->
               (CASE funct3 = 0 ->
                       (CASE funct7 = 0 -> DecSome(IR, "rv64i_add")
                          [] funct7 = 32 -> DecSome(IR, "rv64i_sub")
                          [] OTHER -> DecNone)
                  [] funct3 = 1 -> DecSome(IR, "rv64i_sll")
                  [] funct3 = 2 -> DecSome(IR, "rv64i_slt")
                  [] funct3 = 3 -> DecSome(IR, "rv64i_sltu")
                  [] funct3 = 4 -> DecSome(IR, "rv64i_xor")
                  [] funct3 = 5 ->
                       (CASE funct7 = 0 -> DecSome(IR, "rv64i_srl")
                          [] funct7 = 32 -> DecSome(IR, "rv64i_sra")
                          [] OTHER -> DecNone)
                  [] funct3 = 6 -> DecSome(IR, "rv64i_or")
                  [] funct3 = 7 -> DecSome(IR, "rv64i_and"))
          [] opcode = RV64I_OPCODE_SYSTEM -> DecPanic
          [] OTHER -> DecNone

ZICSR_OPCODE == 115
CSR_MHARTID == 3860
CSR_MEPC == 833

\* ZicsrDecoder::decode.
ZicsrDecoder_decode(raw) ==
    LET imm_i  == extract_imm(raw, "I")
        opcode == BitsOf(raw, 0, 7)
        funct3 == BitsOf(raw, 12, 3)
        rd     == BitsOf(raw, 7, 5)
        rs1    == BitsOf(raw, 15, 5)
        insn   == Insn("I", raw, opcode, rd, funct3, rs1, 0, 0, imm_i)
    IN  IF opcode # ZICSR_OPCODE THEN DecNone
        ELSE CASE funct3 = 1 -> DecSome(insn, "zicsr_csrrw")
               [] funct3 = 2 -> DecSome(insn, "zicsr_csrrs")
               [] funct3 = 3 -> DecSome(insn, "zicsr_csrrc")
               [] funct3 = 5 -> DecSome(insn, "zicsr_csrrwi")
               [] funct3 = 6 -> DecSome(insn, "zicsr_csrrsi")
               [] funct3 = 7 -> DecSome(insn, "zicsr_csrrci")
               [] funct3 = 0 ->
                    IF rs1 = 0 /\ rd = 0 /\ imm_i = U(770)
                    THEN DecSome(insn, "priv_mret") ELSE DecNone
               [] OTHER -> DecNone

\* The one encoding Zifencei claims, 0x0000100f.
ZIFENCEI_INSN == U(4111)

\* ZifenceiDecoder::decode.
ZifenceiDecoder_decode(raw) ==
    IF raw = ZIFENCEI_INSN
    THEN DecSome(Insn("R", raw, 115, 0, 0, 0, 0, 0, Zero), "zifencei")
    ELSE DecNone


\* ---------------------------------------------------------- executors
\* An executor's Result<()>, with the state and guest memory it leaves.
ExOk(state, guest) == [ok |-> TRUE, err |-> NoError, state |-> state, guest |-> guest]
ExErr(err, state, guest) == [ok |-> FALSE, err |-> err, state |-> state, guest |-> guest]

\* The else branch of the r!/i!/s!/b!/u!/j! unwrappers (insn/mod.rs).
InternalDecodingError == Error("InternalError", "", Zero, Zero)

\* x[r] = value.
SetX(state, r, value) == [state EXCEPT !.x[r] = value]

\* x[rs1] + sign_extend(imm, 12), wrapping: the address of a load or store.
EffAddr(state, insn) == WrappingAdd(state.x[insn.rs1], sign_extend(insn.imm, 12))

rv64i_lui(state, guest, insn) ==
    IF insn.form # "U" THEN ExErr(InternalDecodingError, state, guest)
    ELSE ExOk(SetX(state, insn.rd, zero_extend(insn.imm, 32)), guest)

rv64i_auipc(state, guest, insn) ==
    IF insn.form # "U" THEN ExErr(InternalDecodingError, state, guest)
    ELSE ExOk(SetX(state, insn.rd,
                   WrappingAdd(state.pc, zero_extend(insn.imm, 32))), guest)

rv64i_lb(state, guest, insn) ==
    LET Loaded(r) == IF ~r.ok THEN ExErr(r.err, state, guest)
                     ELSE ExOk(SetX(state, insn.rd, sign_extend(U(r.val), 8)), guest)
    IN  IF insn.form # "I" THEN ExErr(InternalDecodingError, state, guest)
        ELSE Loaded(read_u8(guest, EffAddr(state, insn)))

rv64i_lbu(state, guest, insn) ==
    LET Loaded(r) == IF ~r.ok THEN ExErr(r.err, state, guest)
                     ELSE ExOk(SetX(state, insn.rd, zero_extend(U(r.val), 8)), guest)
    IN  IF insn.form # "I" THEN ExErr(InternalDecodingError, state, guest)
        ELSE Loaded(read_u8(guest, EffAddr(state, insn)))

rv64i_lh(state, guest, insn) ==
    LET Loaded(r) == IF ~r.ok THEN ExErr(r.err, state, guest)
                     ELSE ExOk(SetX(state, insn.rd, sign_extend(r.val, 16)), guest)
    IN  IF insn.form # "I" THEN ExErr(InternalDecodingError, state, guest)
        ELSE Loaded(read_u16(guest, EffAddr(state, insn)))

rv64i_lhu(state, guest, insn) ==
    LET Loaded(r) == IF ~r.ok THEN ExErr(r.err, state, guest)
                     ELSE ExOk(SetX(state, insn.rd, zero_extend(r.val, 16)), guest)
    IN  IF insn.form # "I" THEN ExErr(InternalDecodingError, state, guest)
        ELSE Loaded(read_u16(guest, EffAddr(state, insn)))

\* A load that clears its destination when the read fails.
LoadClearsRd(state, guest, insn) ==
    LET Loaded(r) == IF ~r.ok THEN ExErr(r.err, SetX(state, insn.rd, Zero), guest)
                     ELSE ExOk(SetX(state, insn.rd, zero_extend(r.val, 32)), guest)
    IN  IF insn.form # "I" THEN ExErr(InternalDecodingError, state, guest)
        ELSE Loaded(read_u32(guest, EffAddr(state, insn)))

rv64i_lw(state, guest, insn) ==
    LET Loaded(r) == IF ~r.ok THEN ExErr(r.err, state, guest)
                     ELSE ExOk(SetX(state, insn.rd, zero_extend(r.val, 32)), guest)
    IN  IF insn.form # "I" THEN ExErr(InternalDecodingError, state, guest)
        ELSE Loaded(read_u32(guest, EffAddr(state, insn)))

rv64i_lwu(state, guest, insn) ==
    LET Loaded(r) == IF ~r.ok THEN ExErr(r.err, state, guest)
                     ELSE ExOk(SetX(state, insn.rd, zero_extend(r.val, 32)), guest)
    IN  IF insn.form # "I" THEN ExErr(InternalDecodingError, state, guest)
        ELSE Loaded(read_u32(guest, EffAddr(state, insn)))

rv64i_ld(state, guest, insn) ==
    LET Loaded(r) == IF ~r.ok THEN ExErr(r.err, state, guest)
                     ELSE ExOk(SetX(state, insn.rd, r.val), guest)
    IN  IF insn.form # "I" THEN ExErr(InternalDecodingError, state, guest)
        ELSE Loaded(read_u64(guest, EffAddr(state, insn)))

\* A store's Result: the guest memory keeps the bytes written before a fault.
StoreResult(w, state) ==
    IF w.ok THEN ExOk(state, w.guest) ELSE ExErr(w.err, state, w.guest)

rv64i_sb(state, guest, insn) ==
    IF insn.form # "S" THEN ExErr(InternalDecodingError, state, guest)
    ELSE StoreResult(write_u8(guest, EffAddr(state, insn),
                              ByteOf(state.x[insn.rs2], 0)), state)

rv64i_sh(state, guest, insn) ==
    IF insn.form # "S" THEN ExErr(InternalDecodingError, state, guest)
    ELSE StoreResult(write_u16(guest, EffAddr(state, insn), state.x[insn.rs2]), state)

rv64i_sw(state, guest, insn) ==
    IF insn.form # "S" THEN ExErr(InternalDecodingError, state, guest)
    ELSE StoreResult(write_u32(guest, EffAddr(state, insn), state.x[insn.rs2]), state)

rv64i_sd(state, guest, insn) ==
    IF insn.form # "S" THEN ExErr(InternalDecodingError, state, guest)
    ELSE StoreResult(write_u64(guest, EffAddr(state, insn), state.x[insn.rs2]), state)

\* The common shape of the I-form ALU executors: x[rd] = value.
AluI(state, guest, insn, value) ==
    IF insn.form # "I" THEN ExErr(InternalDecodingError, state, guest)
    ELSE ExOk(SetX(state, insn.rd, value), guest)

\* The common shape of the R-form ALU executors.
AluR(state, guest, insn, value) ==
    IF insn.form # "R" THEN ExErr(InternalDecodingError, state, guest)
    ELSE ExOk(SetX(state, insn.rd, value), guest)

BoolU(b) == IF b THEN U(1) ELSE Zero

\* imm & 0x1f and x[rs2] & 0x1f: the shift amount the shifts use.
ShamtImm(insn) == BitsOf(insn.imm, 0, 5)
ShamtReg(state, insn) == BitsOf(state.x[insn.rs2], 0, 5)

rv64i_addi(state, guest, insn) ==
    AluI(state, guest, insn, WrappingAdd(state.x[insn.rs1], sign_extend(insn.imm, 12)))
rv64i_slli(state, guest, insn) ==
    AluI(state, guest, insn, Shl64(state.x[insn.rs1], ShamtImm(insn)))
rv64i_srli(state, guest, insn) ==
    AluI(state, guest, insn, Shr64(state.x[insn.rs1], ShamtImm(insn)))
rv64i_srai(state, guest, insn) ==
    AluI(state, guest, insn, Sar64(state.x[insn.rs1], ShamtImm(insn)))
rv64i_xori(state, guest, insn) ==
    AluI(state, guest, insn, Xor64(state.x[insn.rs1], sign_extend(insn.imm, 12)))
rv64i_ori(state, guest, insn) ==
    AluI(state, guest, insn, Or64(state.x[insn.rs1], sign_extend(insn.imm, 12)))
rv64i_andi(state, guest, insn) ==
    AluI(state, guest, insn, And64(state.x[insn.rs1], sign_extend(insn.imm, 12)))
rv64i_slti(state, guest, insn) ==
    AluI(state, guest, insn, BoolU(LtS(state.x[insn.rs1], sign_extend(insn.imm, 12))))
rv64i_sltiu(state, guest, insn) ==
    AluI(state, guest, insn, BoolU(LtU(state.x[insn.rs1], sign_extend(insn.imm, 12))))

rv64i_add(state, guest, insn) ==
    AluR(state, guest, insn, WrappingAdd(state.x[insn.rs1], state.x[insn.rs2]))
rv64i_sub(state, guest, insn) ==
    AluR(state, guest, insn, WrappingSub(state.x[insn.rs1], state.x[insn.rs2]))
rv64i_sll(state, guest, insn) ==
    AluR(state, guest, insn, Shl64(state.x[insn.rs1], ShamtReg(state, insn)))
rv64i_srl(state, guest, insn) ==
    AluR(state, guest, insn, Shr64(state.x[insn.rs1], ShamtReg(state, insn)))
rv64i_sra(state, guest, insn) ==
    AluR(state, guest, insn, Sar64(state.x[insn.rs1], ShamtReg(state, insn)))
rv64i_xor(state, guest, insn) ==
    AluR(state, guest, insn, Xor64(state.x[insn.rs1], state.x[insn.rs2]))
rv64i_or(state, guest, insn) ==
    AluR(state, guest, insn, Or64(state.x[insn.rs1], state.x[insn.rs2]))
rv64i_and(state, guest, insn) ==
    AluR(state, guest, insn, And64(state.x[insn.rs1], state.x[insn.rs2]))
rv64i_slt(state, guest, insn) ==
    AluR(state, guest, insn, BoolU(LtS(state.x[insn.rs1], state.x[insn.rs2])))
rv64i_sltu(state, guest, insn) ==
    AluR(state, guest, insn, BoolU(LtU(state.x[insn.rs1], state.x[insn.rs2])))

\* The common shape of the branch executors: on taken,
\* pc = pc.wrapping_add(sign_extend!(imm, 12)).
Branch(state, guest, insn, taken) ==
    IF insn.form # "B" THEN ExErr(InternalDecodingError, state, guest)
    ELSE IF taken
         THEN ExOk([state EXCEPT !.pc = WrappingAdd(state.pc, sign_extend(insn.imm, 12))],
                   guest)
         ELSE ExOk(state, guest)

rv64i_beq(state, guest, insn) ==
    Branch(state, guest, insn, state.x[insn.rs1] = state.x[insn.rs2])
rv64i_bne(state, guest, insn) ==
    Branch(state, guest, insn, state.x[insn.rs1] # state.x[insn.rs2])
rv64i_blt(state, guest, insn) ==
    Branch(state, guest, insn, LtS(state.x[insn.rs1], state.x[insn.rs2]))
rv64i_bge(state, guest, insn) ==
    Branch(state, guest, insn, ~LtS(state.x[insn.rs1], state.x[insn.rs2]))
rv64i_bltu(state, guest, insn) ==
    Branch(state, guest, insn, LtU(state.x[insn.rs1], state.x[insn.rs2]))
rv64i_bgeu(state, guest, insn) ==
    Branch(state, guest, insn, ~LtU(state.x[insn.rs1], state.x[insn.rs2]))

rv64i_jal(state, guest, insn) ==
    IF insn.form # "J" THEN ExErr(InternalDecodingError, state, guest)
    ELSE LET target == WrappingAdd(state.pc, sign_extend(insn.imm, 21))
             linked == SetX(state, insn.rd, WrappingAdd(state.pc, U(4)))
         IN  ExOk([linked EXCEPT !.pc = target], guest)

rv64i_jalr(state, guest, insn) ==
    IF insn.form # "I" THEN ExErr(InternalDecodingError, state, guest)
    ELSE LET target == And64(WrappingAdd(state.x[insn.rs1], sign_extend(insn.imm, 12)),
                             Not64(U(1)))
             linked == SetX(state, insn.rd, WrappingAdd(state.pc, U(4)))
         IN  ExOk([linked EXCEPT !.pc = target], guest)

\* The word executors: the operation on the low 32 bits of the operands,
\* the 32-bit result widened by sign_extend!(.., 32).
rv64i_addiw(state, guest, insn) ==
    AluI(state, guest, insn,
         sign_extend(WrappingAdd(state.x[insn.rs1], sign_extend(insn.imm, 12)), 32))
rv64i_slliw(state, guest, insn) ==
    AluI(state, guest, insn,
         sign_extend(Shl64(zero_extend(state.x[insn.rs1], 32), ShamtImm(insn)), 32))
rv64i_srliw(state, guest, insn) ==
    AluI(state, guest, insn,
         sign_extend(Shr64(zero_extend(state.x[insn.rs1], 32), ShamtImm(insn)), 32))
rv64i_sraiw(state, guest, insn) ==
    AluI(state, guest, insn,
         sign_extend(Sar64(sign_extend(state.x[insn.rs1], 32), ShamtImm(insn)), 32))
rv64i_addw(state, guest, insn) ==
    AluR(state, guest, insn,
         sign_extend(WrappingAdd(state.x[insn.rs1], state.x[insn.rs2]), 32))
rv64i_subw(state, guest, insn) ==
    AluR(state, guest, insn,
         sign_extend(WrappingSub(state.x[insn.rs1], state.x[insn.rs2]), 32))
rv64i_sllw(state, guest, insn) ==
    AluR(state, guest, insn,
         sign_extend(Shl64(zero_extend(state.x[insn.rs1], 32), ShamtReg(state, insn)), 32))
rv64i_srlw(state, guest, insn) ==
    AluR(state, guest, insn,
         sign_extend(Shr64(zero_extend(state.x[insn.rs1], 32), ShamtReg(state, insn)), 32))
rv64i_sraw(state, guest, insn) ==
    AluR(state, guest, insn,
         sign_extend(Sar64(sign_extend(state.x[insn.rs1], 32), ShamtReg(state, insn)), 32))

rv64i_ecall(state, guest, insn) == ExOk([state EXCEPT !.break_on = "Ecall"], guest)

rv64i_ebreak(state, guest, insn) == ExOk([state EXCEPT !.break_on = "Ebreak"], guest)

rv64i_fence(state, guest, insn) == ExOk(state, guest)

rv64i_fence_i(state, guest, insn) == ExOk(state, guest)

zifencei(state, guest, insn) == ExOk(state, guest)


\* The Zicsr executors also read and write the process-wide static MEPC.
ZxOk(state, guest, mepc) ==
    [ok |-> TRUE, err |-> NoError, state |-> state, guest |-> guest, MEPC |-> mepc]

\* The common shape of the six CSR executors: mhartid reads 0, mepc is read
\* into x[rd] and replaced by new_mepc, any other CSR is ignored.
ZicsrAccess(state, guest, insn, mepc, new_mepc) ==
    IF insn.form # "I"
    THEN [ok |-> FALSE, err |-> InternalDecodingError, state |-> state,
          guest |-> guest, MEPC |-> mepc]
    ELSE CASE insn.imm = U(CSR_MHARTID) -> ZxOk(SetX(state, insn.rd, Zero), guest, mepc)
           [] insn.imm = U(CSR_MEPC) -> ZxOk(SetX(state, insn.rd, mepc), guest, new_mepc)
           [] OTHER -> ZxOk(state, guest, mepc)

\* In csrrw/csrrs/csrrc, x[rd] is written before x[rs1] is read.
zicsr_csrrw(state, guest, insn, mepc) ==
    ZicsrAccess(state, guest, insn, mepc, SetX(state, insn.rd, mepc).x[insn.rs1])
zicsr_csrrs(state, guest, insn, mepc) ==
    ZicsrAccess(state, guest, insn, mepc,
                Or64(mepc, SetX(state, insn.rd, mepc).x[insn.rs1]))
zicsr_csrrc(state, guest, insn, mepc) ==
    ZicsrAccess(state, guest, insn, mepc,
                And64(mepc, Not64(SetX(state, insn.rd, mepc).x[insn.rs1])))
zicsr_csrrwi(state, guest, insn, mepc) ==
    ZicsrAccess(state, guest, insn, mepc, zero_extend(U(insn.rs1), 5))
zicsr_csrrsi(state, guest, insn, mepc) ==
    ZicsrAccess(state, guest, insn, mepc, Or64(mepc, zero_extend(U(insn.rs1), 5)))
zicsr_csrrci(state, guest, insn, mepc) ==
    ZicsrAccess(state, guest, insn, mepc,
                And64(mepc, Not64(zero_extend(U(insn.rs1), 5))))

priv_mret(state, guest, insn, mepc) ==
    ZxOk([state EXCEPT !.pc = mepc], guest, mepc)

\* The call executor(&mut self.state, guest, &insn) of Hart::step, by the
\* executor's name.
Execute(executor, state, guest, insn, mepc) ==
    LET Rv(r) == [ok |-> r.ok, err |-> r.err, state |-> r.state,
                  guest |-> r.guest, MEPC |-> mepc]
    IN  CASE executor = "rv64i_lui"   -> Rv(rv64i_lui(state, guest, insn))
          [] executor = "rv64i_auipc" -> Rv(rv64i_auipc(state, guest, insn))
          [] executor = "rv64i_lb"    -> Rv(rv64i_lb(state, guest, insn))
          [] executor = "rv64i_lh"    -> Rv(rv64i_lh(state, guest, insn))
          [] executor = "rv64i_lw"    -> Rv(rv64i_lw(state, guest, insn))
          [] executor = "rv64i_ld"    -> Rv(rv64i_ld(state, guest, insn))
          [] executor = "rv64i_lbu"   -> Rv(rv64i_lbu(state, guest, insn))
          [] executor = "rv64i_lhu"   -> Rv(rv64i_lhu(state, guest, insn))
          [] executor = "rv64i_lwu"   -> Rv(rv64i_lwu(state, guest, insn))
          [] executor = "rv64i_sb"    -> Rv(rv64i_sb(state, guest, insn))
          [] executor = "rv64i_sh"    -> Rv(rv64i_sh(state, guest, insn))
          [] executor = "rv64i_sw"    -> Rv(rv64i_sw(state, guest, insn))
          [] executor = "rv64i_sd"    -> Rv(rv64i_sd(state, guest, insn))
          [] executor = "rv64i_addi"  -> Rv(rv64i_addi(state, guest, insn))
          [] executor = "rv64i_slli"  -> Rv(rv64i_slli(state, guest, insn))
          [] executor = "rv64i_slti"  -> Rv(rv64i_slti(state, guest, insn))
          [] executor = "rv64i_sltiu" -> Rv(rv64i_sltiu(state, guest, insn))
          [] executor = "rv64i_xori"  -> Rv(rv64i_xori(state, guest, insn))
          [] executor = "rv64i_srli"  -> Rv(rv64i_srli(state, guest, insn))
          [] executor = "rv64i_srai"  -> Rv(rv64i_srai(state, guest, insn))
          [] executor = "rv64i_ori"   -> Rv(rv64i_ori(state, guest, insn))
          [] executor = "rv64i_andi"  -> Rv(rv64i_andi(state, guest, insn))
          [] executor = "rv64i_beq"   -> Rv(rv64i_beq(state, guest, insn))
          [] executor = "rv64i_bne"   -> Rv(rv64i_bne(state, guest, insn))
          [] executor = "rv64i_blt"   -> Rv(rv64i_blt(state, guest, insn))
          [] executor = "rv64i_bge"   -> Rv(rv64i_bge(state, guest, insn))
          [] executor = "rv64i_bltu"  -> Rv(rv64i_bltu(state, guest, insn))
          [] executor = "rv64i_bgeu"  -> Rv(rv64i_bgeu(state, guest, insn))
          [] executor = "rv64i_jal"   -> Rv(rv64i_jal(state, guest, insn))
          [] executor = "rv64i_jalr"  -> Rv(rv64i_jalr(state, guest, insn))
          [] executor = "rv64i_add"   -> Rv(rv64i_add(state, guest, insn))
          [] executor = "rv64i_sub"   -> Rv(rv64i_sub(state, guest, insn))
          [] executor = "rv64i_sll"   -> Rv(rv64i_sll(state, guest, insn))
          [] executor = "rv64i_slt"   -> Rv(rv64i_slt(state, guest, insn))
          [] executor = "rv64i_sltu"  -> Rv(rv64i_sltu(state, guest, insn))
          [] executor = "rv64i_xor"   -> Rv(rv64i_xor(state, guest, insn))
          [] executor = "rv64i_srl"   -> Rv(rv64i_srl(state, guest, insn))
          [] executor = "rv64i_sra"   -> Rv(rv64i_sra(state, guest, insn))
          [] executor = "rv64i_or"    -> Rv(rv64i_or(state, guest, insn))
          [] executor = "rv64i_and"   -> Rv(rv64i_and(state, guest, insn))
          [] executor = "rv64i_addiw" -> Rv(rv64i_addiw(state, guest, insn))
          [] executor = "rv64i_slliw" -> Rv(rv64i_slliw(state, guest, insn))
          [] executor = "rv64i_srliw" -> Rv(rv64i_srliw(state, guest, insn))
          [] executor = "rv64i_sraiw" -> Rv(rv64i_sraiw(state, guest, insn))
          [] executor = "rv64i_addw"  -> Rv(rv64i_addw(state, guest, insn))
          [] executor = "rv64i_subw"  -> Rv(rv64i_subw(state, guest, insn))
          [] executor = "rv64i_sllw"  -> Rv(rv64i_sllw(state, guest, insn))
          [] executor = "rv64i_srlw"  -> Rv(rv64i_srlw(state, guest, insn))
          [] executor = "rv64i_sraw"  -> Rv(rv64i_sraw(state, guest, insn))
          [] executor = "rv64i_ecall"   -> Rv(rv64i_ecall(state, guest, insn))
          [] executor = "rv64i_ebreak"  -> Rv(rv64i_ebreak(state, guest, insn))
          [] executor = "rv64i_fence"   -> Rv(rv64i_fence(state, guest, insn))
          [] executor = "rv64i_fence_i" -> Rv(rv64i_fence_i(state, guest, insn))
          [] executor = "zifencei"    -> Rv(zifencei(state, guest, insn))
          [] executor = "zicsr_csrrw"  -> zicsr_csrrw(state, guest, insn, mepc)
          [] executor = "zicsr_csrrs"  -> zicsr_csrrs(state, guest, insn, mepc)
          [] executor = "zicsr_csrrc"  -> zicsr_csrrc(state, guest, insn, mepc)
          [] executor = "zicsr_csrrwi" -> zicsr_csrrwi(state, guest, insn, mepc)
          [] executor = "zicsr_csrrsi" -> zicsr_csrrsi(state, guest, insn, mepc)
          [] executor = "zicsr_csrrci" -> zicsr_csrrci(state, guest, insn, mepc)
          [] executor = "priv_mret"    -> priv_mret(state, guest, insn, mepc)

\* ----------------------------------------------------------------- hart
\* One decoder's decode, by the InsnSet it was registered for
\* (Hart::add_decoder).
DecoderDecode(set, raw) ==
    CASE set = "I"        -> Rv64IDecoder_decode(raw)
      [] set = "Zifencei" -> ZifenceiDecoder_decode(raw)
      [] set = "Ziscr"    -> ZicsrDecoder_decode(raw)

RECURSIVE HartDecodeFrom(_, _, _)
HartDecodeFrom(decoders, raw, i) ==
    LET Try(d) == IF d.kind = "None" THEN HartDecodeFrom(decoders, raw, i + 1) ELSE d
    IN  IF i > Len(decoders) THEN DecNone
        ELSE Try(DecoderDecode(decoders[i], raw))

\* Hart::decode: the decoders in registration order, the first Some wins.
Hart_decode(decoders, raw) == HartDecodeFrom(decoders, raw, 1)

\* What Hart::step leaves: kind is "Ok" (cause the Option<BreakCause>),
\* "Err" (err the error) or "Panic".  For the record, raw is the word fetched,
\* executor the executor that ran ("" if none), cur_pc the pc captured before
\* it and exec_pc the pc it left.
StepOut(kind, cause, err, state, guest, mepc, raw, executor, cur_pc, exec_pc) ==
    [kind |-> kind, cause |-> cause, err |-> err, state |-> state, guest |-> guest,
     MEPC |-> mepc, raw |-> raw, executor |-> executor, cur_pc |-> cur_pc,
     exec_pc |-> exec_pc]

\* A step that never advances the pc itself.
PcUpdateNever(cur_pc, exec_state, insn) == exec_state

\* The PC update rule of Hart::step.
PcUpdate(cur_pc, exec_state, insn) ==
    IF cur_pc = exec_state.pc
    THEN [exec_state EXCEPT !.pc = WrappingAdd(cur_pc, U(step_size(insn)))]
    ELSE exec_state

\* Hart::step.
Hart_step(state0, guest, mepc, decoders) ==
    LET state  == [state0 EXCEPT !.x[0] = Zero, !.break_on = "None"]
        cur_pc == state.pc
        Executed(raw, dec, ex, after) ==
            IF ~ex.ok
            THEN StepOut("Err", "None", ex.err, ex.state, ex.guest, ex.MEPC, raw,
                         dec.executor, cur_pc, ex.state.pc)
            ELSE StepOut("Ok", after.break_on, NoError, after, ex.guest, ex.MEPC, raw,
                         dec.executor, cur_pc, ex.state.pc)
        Execution(raw, dec, ex) ==
            Executed(raw, dec, ex, PcUpdate(cur_pc, ex.state, dec.insn))
        Decoded(raw, dec) ==
            CASE dec.kind = "Panic" ->
                   StepOut("Panic", "None", NoError, state, guest, mepc, raw, "",
                           cur_pc, cur_pc)
              [] dec.kind = "None" ->
                   StepOut("Err", "None", Error("Unimplemented", "", Zero, Zero),
                           state, guest, mepc, raw, "", cur_pc, cur_pc)
              [] OTHER ->
                   Execution(raw, dec, Execute(dec.executor, state, guest, dec.insn, mepc))
        Fetched(fetch) ==
            IF ~fetch.ok
            THEN StepOut("Err", "None", fetch.err, state, guest, mepc, Zero, "",
                         cur_pc, cur_pc)
            ELSE Decoded(fetch.val, Hart_decode(decoders, fetch.val))
    IN  IF cur_pc[1] % 2 # 0
        THEN StepOut("Err", "None", Error("InternalError", "", Zero, Zero),
                     state, guest, mepc, Zero, "", cur_pc, cur_pc)
        ELSE Fetched(read_u32(guest, state.pc))

\* ------------------------------------------------ minimal syscall handler
SYS_EXIT == 0
SYS_PUTCHAR == 1
SYS_PUTS == 2

\* A handler's Result<()>, with the state it leaves.
SysOut(ok, err, state) == [ok |-> ok, err |-> err, state |-> state]

sys_exit(state, exit_code) == SysOut(FALSE, Error("Exit", "", exit_code, Zero), state)

sys_putchar(state, c) == SysOut(TRUE, NoError, state)

RECURSIVE sys_puts(_, _, _)
\* sys_puts: reads the string byte by byte from ptr on.
sys_puts(state, guest, ptr) ==
    LET Read(byte) ==
            IF ~byte.ok
            THEN IF byte.err.kind = "MemAccessFault"
                 THEN SysOut(TRUE, NoError, SetX(state, 0, AllOnes))
                 ELSE SysOut(FALSE, byte.err, state)
            ELSE IF byte.val = 0 THEN SysOut(TRUE, NoError, state)
            ELSE sys_puts(state, guest, WrappingAdd(ptr, U(1)))
    IN  Read(read_u8(guest, ptr))

\* MinilibSyscallHandler::handle.
MinilibSyscallHandler_handle(state, guest) ==
    CASE state.x[17] \in {U(SYS_EXIT), U(93)} -> sys_exit(state, state.x[10])
      [] state.x[17] = U(SYS_PUTCHAR) -> sys_putchar(state, ByteOf(state.x[10], 0))
      [] state.x[17] = U(SYS_PUTS) -> sys_puts(state, guest, state.x[10])
      [] OTHER -> SysOut(FALSE, Error("SyscallUnimplemented", "", state.x[17], state.pc),
                         state)


\* ------------------------------------------------------------ emulator
STACK_SIZE == 8388608
POLL_INTERVAL == 1024

\* What Emulator::step and Emulator::force_step leave: kind "Ok" is
\* Ok(reason) (both only ever build ExitReason::DoneStep; val is the reason's
\* field), "Err" is Err(err), "Panic" a panic; hart is what hart.step left
\* (kind "None" if it was not called) and handled counts the calls of the
\* syscall handler.
EmuOut(kind, err, state, guest, mepc, hart, handled) ==
    [kind |-> kind, reason |-> IF kind = "Ok" THEN "DoneStep" ELSE "", val |-> Zero,
     err |-> err, state |-> state, guest |-> guest, MEPC |-> mepc,
     hart |-> hart, handled |-> handled]

\* Emulator::force_step.
Emulator_force_step(st, g, mepc, decs) ==
    LET Handled(hs, h) ==
            IF h.ok THEN EmuOut("Ok", NoError, h.state, hs.guest, hs.MEPC, hs, 1)
            ELSE EmuOut("Err", h.err, h.state, hs.guest, hs.MEPC, hs, 1)
        Stepped(hs) ==
            CASE hs.kind = "Err" ->
                   EmuOut("Err", hs.err, hs.state, hs.guest, hs.MEPC, hs, 0)
              [] hs.kind = "Panic" ->
                   EmuOut("Panic", NoError, hs.state, hs.guest, hs.MEPC, hs, 0)
              [] hs.kind = "Ok" /\ hs.cause = "Ecall" ->
                   Handled(hs, MinilibSyscallHandler_handle(hs.state, hs.guest))
              [] hs.kind = "Ok" /\ hs.cause = "Ebreak" ->
                   EmuOut("Panic", NoError, hs.state, hs.guest, hs.MEPC, hs, 0)
              [] OTHER -> EmuOut("Ok", NoError, hs.state, hs.guest, hs.MEPC, hs, 0)
    IN  Stepped(Hart_step(st, g, mepc, decs))

\* Emulator::step.
Emulator_step(st, g, mepc, decs, bps) ==
    IF st.pc \in bps
    THEN EmuOut("Err", Error("BreakpointHit", "", Zero, Zero), st, g, mepc,
                StepOut("None", "None", NoError, st, g, mepc, Zero, "", st.pc, st.pc),
                0)
    ELSE Emulator_force_step(st, g, mepc, decs)

\* An insertion that does not look for the address first.
SetBreakpointUnchecked(bps, gaddr) ==
    [ok |-> TRUE, err |-> NoError, breakpoints |-> bps \cup {gaddr}]

\* Emulator::set_breakpoint: the Result and the set it leaves.
Emulator_set_breakpoint(bps, gaddr) ==
    IF gaddr \in bps
    THEN [ok |-> FALSE, err |-> Error("RepeatedBreakpoint", "", gaddr, Zero),
          breakpoints |-> bps]
    ELSE [ok |-> TRUE, err |-> NoError, breakpoints |-> bps \cup {gaddr}]

\* Emulator::rm_breakpoint.
Emulator_rm_breakpoint(bps, gaddr) ==
    IF gaddr \notin bps
    THEN [ok |-> FALSE, err |-> Error("BreakpointNotFound", "", gaddr, Zero),
          breakpoints |-> bps]
    ELSE [ok |-> TRUE, err |-> NoError, breakpoints |-> bps \ {gaddr}]

\* A poll test that is one instruction late.
PollDueLate(n) == n % POLL_INTERVAL = 1

\* The poll test of run_debug.
PollDue(n) == n % POLL_INTERVAL = 0

\* A Result<ExitReason> (or Result<()>, reason "") returned to the caller:
\* kind is "None" (nothing returned yet), "Ok", "Err" or "Panic".
Ret(kind, reason, val, err) == [kind |-> kind, reason |-> reason, val |-> val, err |-> err]

RetNone == Ret("None", "", Zero, NoError)
RetOk(reason, val) == Ret("Ok", reason, val, NoError)
RetErr(err) == Ret("Err", "", Zero, err)
RetPanic == Ret("Panic", "", Zero, NoError)

\* What one iteration of a controller loop leaves: next is "continue",
\* "return" (with ret) or "panic"; polled is "None" if poller() was not
\* called, else what it returned ("true" or "false").
IterOut(next, r, state, guest, mepc, cyc, first, hart, handled, polled) ==
    [next |-> next, ret |-> r, state |-> state, guest |-> guest, MEPC |-> mepc,
     cycles |-> cyc, first_step |-> first, hart |-> hart, handled |-> handled,
     polled |-> polled]

\* hart.step was not called.
NoStep(st, g, mepc) ==
    StepOut("None", "None", NoError, st, g, mepc, Zero, "", st.pc, st.pc)

\* An iteration that hands the result of its step back to the caller.
RunIterationOnce(st, g, mepc, decs) ==
    LET Out(f, next, r) == IterOut(next, r, f.state, f.guest, f.MEPC, 0, TRUE,
                                   f.hart, f.handled, "None")
        Match(f) ==
            CASE f.kind = "Panic" -> Out(f, "panic", RetPanic)
              [] f.kind = "Ok" -> Out(f, "return", RetOk("DoneStep", Zero))
              [] OTHER -> Out(f, "return", RetErr(f.err))
    IN  Match(Emulator_force_step(st, g, mepc, decs))

\* One iteration of the loop of Emulator::run (the mode is Run).
RunIteration(st, g, mepc, decs) ==
    LET Out(f, next, r) == IterOut(next, r, f.state, f.guest, f.MEPC, 0, TRUE,
                                   f.hart, f.handled, "None")
        Match(f) ==
            CASE f.kind = "Panic" -> Out(f, "panic", RetPanic)
              [] f.kind = "Ok" -> Out(f, "continue", RetNone)
              [] f.kind = "Err" /\ f.err.kind = "Exited" ->
                   Out(f, "return", RetOk("Exited", f.err.v))
              [] OTHER -> Out(f, "return", RetErr(f.err))
    IN  Match(Emulator_force_step(st, g, mepc, decs))

\* One iteration of the loop of Emulator::run_debug; answer is what poller()
\* returns if it is called.
RunDebugIteration(st, g, mepc, decs, bps, md, cyc, first, answer) ==
    LET Out(next, r, e, c, fs, polled) ==
            IterOut(next, r, e.state, e.guest, e.MEPC, c, fs, e.hart, e.handled, polled)
        Poll(e) ==
            IF PollDue(cyc + 1)
            THEN IF answer
                 THEN Out("return", RetOk("IncomingData", Zero), e, cyc + 1, FALSE, "true")
                 ELSE Out("continue", RetNone, e, cyc + 1, FALSE, "false")
            ELSE Out("continue", RetNone, e, cyc + 1, FALSE, "None")
        Forced(f) ==
            CASE f.kind = "Panic" -> Out("panic", RetPanic, f, cyc, FALSE, "None")
              [] f.kind = "Err" -> Out("return", RetErr(f.err), f, cyc, FALSE, "None")
              [] OTHER -> Poll(f)
        Match(s) ==
            CASE s.kind = "Panic" -> Out("panic", RetPanic, s, cyc, first, "None")
              [] s.kind = "Ok" /\ s.reason = "BreakpointHit" ->
                   IF first
                   THEN Forced(Emulator_force_step(s.state, s.guest, s.MEPC, decs))
                   ELSE Out("return", RetOk("BreakpointHit", s.val), s, cyc, first,
                            "None")
              [] s.kind = "Ok" /\ s.reason = "DoneStep" -> Poll(s)
              [] s.kind = "Ok" -> Out("panic", RetPanic, s, cyc, first, "None")
              [] s.kind = "Err" /\ s.err.kind = "Exited" ->
                   Out("return", RetOk("Exited", s.err.v), s, cyc, first, "None")
              [] OTHER -> Out("return", RetErr(s.err), s, cyc, first, "None")
    IN  CASE md = "Debug(Continue)" ->
               Match(Emulator_step(st, g, mepc, decs, bps))
          [] md = "Debug(Step)" ->
               IterOut("continue", RetNone, st, g, mepc, cyc, first,
                       NoStep(st, g, mepc), 0, "None")
          [] OTHER ->
               IterOut("panic", RetPanic, st, g, mepc, cyc, first,
                       NoStep(st, g, mepc), 0, "None")

\* An EmulatorBuilder: whether a syscall handler was given, the InsnSets of
\* the decoder(set) calls in order, the stack size and the mode.
EmulatorBuilder(syscall, decs, size, md) ==
    [syscall |-> syscall, decoders |-> decs, stack_size |-> size, mode |-> md]

\* EmulatorBuilder::new.
EmulatorBuilder_new == EmulatorBuilder(FALSE, << >>, STACK_SIZE, "Run")

\* Hart::add_decoder: the Result and the decoders it leaves.
Hart_add_decoder(decs, set) ==
    IF set \in {"I", "Zifencei", "Ziscr"}
    THEN [ok |-> TRUE, err |-> NoError, decoders |-> Append(decs, set)]
    ELSE [ok |-> FALSE, err |-> Error("Unimplemented", "", Zero, Zero), decoders |-> decs]

RECURSIVE AddDecoders(_, _, _)
\* The loop of build over the builder's decoders, from the i-th on.
AddDecoders(decs, sets, i) ==
    LET Added(r) == IF r.ok THEN AddDecoders(r.decoders, sets, i + 1) ELSE r
    IN  IF i > Len(sets) THEN [ok |-> TRUE, err |-> NoError, decoders |-> decs]
        ELSE Added(Hart_add_decoder(decs, sets[i]))

\* EmulatorBuilder::build: the Result and, if Ok, the hart's decoders (the
\* other fields of the Emulator are set by the build action).
EmulatorBuilder_build(b) ==
    IF ~b.syscall
    THEN [ok |-> FALSE, err |-> Error("Other", "", Zero, Zero), decoders |-> << >>]
    ELSE AddDecoders(<< >>, b.decoders, 1)

\* The top of the stack, 0x8000_0000.
STACK_TOP == W(32768, 0)

\* A load that puts the stack above its top instead of below it.
LoadElfStackAbove(st, g, elf, size, checked, mapped) ==
    LET Out(kind, err, s, m) == [kind |-> kind, err |-> err, state |-> s, guest |-> m]
        Stacked(s, r) ==
            CASE r.panic -> Out("Panic", NoError, s, r.guest)
              [] ~r.ok -> Out("Err", r.err, s, r.guest)
              [] OTHER -> Out("Ok", NoError, [s EXCEPT !.x[2] = STACK_TOP], r.guest)
        Entered(s, m) ==
            Stacked(s, add_segment(m, STACK_TOP, size, {"READ", "WRITE"}, FALSE,
                                   << >>, checked, mapped))
        Loaded(l) ==
            CASE l.kind = "Panic" -> Out("Panic", NoError, st, l.guest)
              [] l.kind = "Err" -> Out("Err", l.err, st, l.guest)
              [] OTHER -> Entered([st EXCEPT !.pc = l.entry], l.guest)
    IN  Loaded(load_elf(g, elf, checked, mapped))

\* Emulator::load_elf: kind is "Ok", "Err" or "Panic".  size is
\* self.stack_size (below 2^32 here, so the subtraction does not underflow).
Emulator_load_elf(st, g, elf, size, checked, mapped) ==
    LET Out(kind, err, s, m) == [kind |-> kind, err |-> err, state |-> s, guest |-> m]
        Stacked(s, r) ==
            CASE r.panic -> Out("Panic", NoError, s, r.guest)
              [] ~r.ok -> Out("Err", r.err, s, r.guest)
              [] OTHER -> Out("Ok", NoError, [s EXCEPT !.x[2] = STACK_TOP], r.guest)
        Entered(s, m) ==
            Stacked(s, add_segment(m, WrappingSub(STACK_TOP, U(size)), size,
                                   {"READ", "WRITE"}, FALSE, << >>, checked, mapped))
        Loaded(l) ==
            CASE l.kind = "Panic" -> Out("Panic", NoError, st, l.guest)
              [] l.kind = "Err" -> Out("Err", l.err, st, l.guest)
              [] OTHER -> Entered([st EXCEPT !.pc = l.entry], l.guest)
    IN  Loaded(load_elf(g, elf, checked, mapped))

\* ----------------------------------------------------------- programs
\* The entry point and load address of the programs, 0x10000.
ENTRY == W(1, 0)

\* li a0, 42; li a7, 0; ecall
ProgExit == <<W(672, 1299), W(0, 2195), W(0, 115)>>

\* addi x0, x0, 1; bne x0, x0, +8; beq x0, x0, +8; (skipped); lui x5, 0x12345
ProgZero == <<W(16, 19), W(0, 5219), W(0, 1123), W(0, 0), W(4660, 21175)>>

\* auipc t0, 0; addi t0, t0, 12; jalr zero, t0, 0;
\* sw t0, -8(sp); lw x6, -8(sp); fence.i
ProgIndirect == <<W(0, 663), W(194, 33427), W(2, 32871),
                  W(65105, 11299), W(65409, 8963), W(0, 4111)>>

\* lw x5, 0(x0)
ProgFault == <<W(0, 8835)>>

\* jal x0, +4; jal x0, -4
ProgLoop == <<W(64, 111), W(65503, 61551)>>

\* csrrw x5, mepc, x2; mret
ProgCsr == <<W(13329, 4851), W(12320, 115)>>

\* The emulators built: a program with the decoders registered, in order.
Configs ==
    { <<ProgExit, <<"I">>>>, <<ProgExit, <<"Ziscr", "I">>>>,
      <<ProgZero, <<"I">>>>,
      <<ProgIndirect, <<"I">>>>, <<ProgIndirect, <<"I", "Zifencei">>>>,
      <<ProgFault, <<"I">>>>,
      <<ProgLoop, <<"I">>>>,
      <<ProgCsr, <<"Ziscr", "I">>>> }

PollConfigs == { <<ProgLoop, <<"I">>>> }

\* The addresses the debugger sets and removes breakpoints at.
BpAddrs == {ENTRY, WrappingAdd(ENTRY, U(4))}

RECURSIVE WordsBytes(_)
\* The little-endian bytes of a sequence of words.
WordsBytes(ws) ==
    IF ws = << >> THEN << >>
    ELSE <<ByteOf(ws[1], 0), ByteOf(ws[1], 1), ByteOf(ws[1], 2), ByteOf(ws[1], 3)>>
         \o WordsBytes(Tail(ws))

\* GuestMem::load_elf of an ELF with one PT_LOAD segment (of the given flags;
\* R+X for LoadedGuest) holding the words at ENTRY, then the stack segment of
\* Emulator::load_elf.
LoadedGuestAs(ws, flags) ==
    LET code == add_segment(GuestMemNew, ENTRY, 4 * Len(ws), flags,
                            TRUE, WordsBytes(ws), FALSE, TRUE).guest
        brk  == MaxU({code.segments[k].m_gaddr_end : k \in DOMAIN code.segments})
        elf  == [code EXCEPT !.init_brk_gaddr = brk, !.cur_brk_gaddr = brk]
    IN  add_segment(elf, WrappingSub(W(32768, 0), U(STACK_SIZE)), STACK_SIZE,
                    {"READ", "WRITE"}, FALSE, << >>, FALSE, TRUE).guest

LoadedGuest(ws) == LoadedGuestAs(ws, {"READ", "EXECUTE"})

\* ------------------------------------------------------------- the system
VARIABLES
    builder,      \* the EmulatorBuilder (as build consumed it, once built)
    stack_size,   \* Emulator::stack_size
    state,        \* hart.state
    guest,        \* the guest memory
    MEPC,         \* the static MEPC of zicsr.rs
    decoders,     \* hart.decoders, as the InsnSets registered
    breakpoints,  \* Emulator::breakpoints
    watchpoints,  \* Emulator::watchpoints
    mode,         \* Emulator::mode
    call,         \* "idle", in "run" or "run_debug", or "crashed" by a panic
    cycles,       \* run_debug's local
    first_step,   \* run_debug's local
    loops,        \* iterations of the current controller loop
    ret,          \* what the last call returned
    last          \* record of the last operation

vars == <<builder, stack_size, state, guest, MEPC, decoders, breakpoints,
          watchpoints, mode, call, cycles, first_step, loops, ret, last>>

\* The record of an operation: its name and argument, the hart state, guest
\* memory and breakpoints it started from, what hart.step left (without the
\* state), the calls of the syscall handler, what poller() returned, the
\* instructions executed so far by the current run or run_debug, and the
\* data buffer of a debugger memory access (empty otherwise).
Last(op, arg, hart, handled, polled, insns) ==
    [op |-> op, arg |-> arg, pre |-> state, mem |-> guest, bps |-> breakpoints,
     hart |-> [kind |-> hart.kind, cause |-> hart.cause, raw |-> hart.raw,
               executor |-> hart.executor, cur_pc |-> hart.cur_pc,
               exec_pc |-> hart.exec_pc],
     handled |-> handled, polled |-> polled, insns |-> insns, buf |-> << >>]

\* 1 if hart.step ran an executor to the end, else 0.
Executed(hart) == IF hart.kind = "Ok" THEN 1 ELSE 0

\* EmulatorBuilder::build (with or without debug()) and Emulator::load_elf.
InitAs(configs, flags) ==
    /\ \E c \in configs :
         /\ guest = LoadedGuestAs(c[1], flags)
         /\ decoders = c[2]
    /\ state = [StateDefault EXCEPT !.pc = ENTRY, !.x[2] = W(32768, 0)]
    /\ MEPC = Zero
    /\ breakpoints = {}
    /\ watchpoints = {}
    /\ mode \in {"Run", "Debug(Step)"}
    /\ builder = EmulatorBuilder(TRUE, decoders, STACK_SIZE, mode)
    /\ stack_size = STACK_SIZE
    /\ call = "idle"
    /\ cycles = 0
    /\ first_step = TRUE
    /\ loops = 0
    /\ ret = RetNone
    /\ last = [op |-> "build", arg |-> Zero, pre |-> state, mem |-> guest,
               bps |-> {},
               hart |-> [kind |-> "None", cause |-> "None", raw |-> Zero,
                         executor |-> "", cur_pc |-> ENTRY, exec_pc |-> ENTRY],
               handled |-> 0, polled |-> "None", insns |-> 0, buf |-> << >>]

InitOf(configs) == InitAs(configs, {"READ", "EXECUTE"})

Init == InitOf(Configs)

InitPoll == InitOf(PollConfigs)

\* ------------------------------------------------------------- actions
\* Emulator::set_breakpoint, called by the embedder or the debugger.
set_breakpoint(gaddr) ==
    /\ call = "idle"
    /\ LET r == Emulator_set_breakpoint(breakpoints, gaddr)
       IN  /\ breakpoints' = r.breakpoints
           /\ ret' = IF r.ok THEN RetOk("", Zero) ELSE RetErr(r.err)
    /\ last' = Last("set_breakpoint", gaddr, NoStep(state, guest, MEPC), 0, "None", 0)
    /\ UNCHANGED <<builder, stack_size, watchpoints, state, guest, MEPC, decoders, mode, call, cycles, first_step, loops>>

\* Emulator::rm_breakpoint.
rm_breakpoint(gaddr) ==
    /\ call = "idle"
    /\ LET r == Emulator_rm_breakpoint(breakpoints, gaddr)
       IN  /\ breakpoints' = r.breakpoints
           /\ ret' = IF r.ok THEN RetOk("", Zero) ELSE RetErr(r.err)
    /\ last' = Last("rm_breakpoint", gaddr, NoStep(state, guest, MEPC), 0, "None", 0)
    /\ UNCHANGED <<builder, stack_size, watchpoints, state, guest, MEPC, decoders, mode, call, cycles, first_step, loops>>

\* SingleThreadResume::resume; signal tells whether a signal was passed.
resume(signal) ==
    /\ call = "idle"
    /\ IF signal
       THEN /\ ret' = RetErr(Error("InternalError", "", Zero, Zero))
            /\ mode' = mode
       ELSE /\ ret' = RetOk("", Zero)
            /\ mode' = "Debug(Continue)"
    /\ last' = Last("resume", Zero, NoStep(state, guest, MEPC), 0, "None", 0)
    /\ UNCHANGED <<builder, stack_size, watchpoints, state, guest, MEPC, decoders, breakpoints, call, cycles,
                   first_step, loops>>

\* SingleThreadSingleStep::step.
single_step(signal) ==
    /\ call = "idle"
    /\ IF signal
       THEN /\ ret' = RetErr(Error("InternalError", "", Zero, Zero))
            /\ mode' = mode
       ELSE /\ ret' = RetOk("", Zero)
            /\ mode' = "Debug(Step)"
    /\ last' = Last("single_step", Zero, NoStep(state, guest, MEPC), 0, "None", 0)
    /\ UNCHANGED <<builder, stack_size, watchpoints, state, guest, MEPC, decoders, breakpoints, call, cycles,
                   first_step, loops>>

\* The effect of a step or force_step call that returned r.
Stepped(op, r) ==
    /\ state' = r.state
    /\ guest' = r.guest
    /\ MEPC' = r.MEPC
    /\ call' = IF r.kind = "Panic" THEN "crashed" ELSE "idle"
    /\ ret' = CASE r.kind = "Panic" -> RetPanic
                [] r.kind = "Ok" -> RetOk(r.reason, r.val)
                [] OTHER -> RetErr(r.err)
    /\ last' = Last(op, Zero, r.hart, r.handled, "None", Executed(r.hart))
    /\ UNCHANGED <<builder, stack_size, watchpoints, decoders, breakpoints, mode, cycles, first_step, loops>>

\* Emulator::step, called by the embedder.
step ==
    /\ call = "idle"
    /\ Stepped("step", Emulator_step(state, guest, MEPC, decoders, breakpoints))

\* Emulator::force_step, called by the embedder.
force_step ==
    /\ call = "idle"
    /\ Stepped("force_step", Emulator_force_step(state, guest, MEPC, decoders))

\* Emulator::run is called: any mode but Run is unreachable!().
run ==
    /\ call = "idle"
    /\ IF mode = "Run"
       THEN call' = "run" /\ ret' = RetNone
       ELSE call' = "crashed" /\ ret' = RetPanic
    /\ loops' = 0
    /\ last' = Last("run", Zero, NoStep(state, guest, MEPC), 0, "None", 0)
    /\ UNCHANGED <<builder, stack_size, watchpoints, state, guest, MEPC, decoders, breakpoints, mode, cycles, first_step>>

\* The effect of one iteration i of a controller loop.
Iterated(op, i) ==
    /\ state' = i.state
    /\ guest' = i.guest
    /\ MEPC' = i.MEPC
    /\ cycles' = i.cycles
    /\ first_step' = i.first_step
    /\ loops' = loops + 1
    /\ call' = CASE i.next = "continue" -> call
                 [] i.next = "return" -> "idle"
                 [] OTHER -> "crashed"
    /\ ret' = i.ret
    /\ last' = Last(op, Zero, i.hart, i.handled, i.polled,
                    last.insns + Executed(i.hart))
    /\ UNCHANGED <<builder, stack_size, watchpoints, decoders, breakpoints, mode>>

\* One iteration of the loop of Emulator::run.
run_loop(cap) ==
    /\ call = "run"
    /\ loops < cap
    /\ Iterated("run_loop",
                [RunIteration(state, guest, MEPC, decoders)
                    EXCEPT !.cycles = cycles, !.first_step = first_step])

\* Emulator::run_debug is called.
run_debug ==
    /\ call = "idle"
    /\ call' = "run_debug"
    /\ cycles' = 0
    /\ first_step' = TRUE
    /\ loops' = 0
    /\ ret' = RetNone
    /\ last' = Last("run_debug", Zero, NoStep(state, guest, MEPC), 0, "None", 0)
    /\ UNCHANGED <<builder, stack_size, watchpoints, state, guest, MEPC, decoders, breakpoints, mode>>

\* One iteration of the loop of Emulator::run_debug.
run_debug_loop(cap) ==
    /\ call = "run_debug"
    /\ loops < cap
    /\ \E answer \in BOOLEAN :
         Iterated("run_debug_loop",
                  RunDebugIteration(state, guest, MEPC, decoders, breakpoints, mode,
                                    cycles, first_step, answer))

Next ==
    \/ \E a \in BpAddrs : set_breakpoint(a)
    \/ \E a \in BpAddrs : rm_breakpoint(a)
    \/ \E signal \in BOOLEAN : resume(signal)
    \/ \E signal \in BOOLEAN : single_step(signal)
    \/ step
    \/ force_step
    \/ run
    \/ run_loop(MaxLoops)
    \/ run_debug
    \/ run_debug_loop(MaxLoops)

Spec == Init /\ [][Next]_vars

\* The debugger resuming a looping program, long enough to reach the poll
\* boundaries.
NextPoll ==
    \/ \E signal \in BOOLEAN : resume(signal)
    \/ run_debug
    \/ run_debug_loop(MaxPollLoops)

SpecPoll == InitPoll /\ [][NextPoll]_vars

\* Programs loaded into a segment that is readable but not executable, or
\* executable but not readable.
FetchConfigs == { <<ProgIndirect, <<"I">>>>, <<ProgLoop, <<"I">>>> }

InitFetch == \E flags \in {{"READ"}, {"EXECUTE"}, {"READ", "WRITE"}} :
                InitAs(FetchConfigs, flags)

SpecFetch == InitFetch /\ [][Next]_vars

\* Emulators whose I decoder is registered before the decoder that claims
\* the program's CSR instructions or its fence.i, and one with it after.
OrderConfigs ==
    { <<ProgCsr, <<"I", "Ziscr">>>>, <<ProgCsr, <<"Ziscr", "I">>>>,
      <<ProgIndirect, <<"I", "Zifencei">>>> }

InitOrder == InitOf(OrderConfigs)

SpecOrder == InitOrder /\ [][Next]_vars

\* beq x0, x0, +2048
ProgFar == <<W(0, 227)>>

\* bge x0, x0, +4094
ProgFarthest == <<W(32256, 24547)>>

\* bgeu x0, x0, -4096
ProgBack == <<W(32768, 28771)>>

\* beq x0, x0, -2050
ProgBackFar == <<W(65024, 3939)>>

\* addi x5, x0, -1; blt x5, x0, +8; (skipped); bltu x5, x0, +8;
\* bltu x0, x5, +8; (skipped); bge x0, x5, +8; (skipped); bgeu x5, x0, -4;
\* bne x5, x5, +8; blt x0, x5, -8
ProgCompare == <<W(65520, 659), W(2, 50275), W(0, 0), W(2, 58467), W(80, 25699), W(0, 0), W(80, 21603), W(0, 0), W(65026, 65251), W(82, 37987), W(65104, 19683)>>

BranchConfigs ==
    { <<ProgFar, <<"I">>>>, <<ProgFarthest, <<"I">>>>, <<ProgBack, <<"I">>>>,
      <<ProgBackFar, <<"I">>>>, <<ProgCompare, <<"I">>>> }

InitBranch == InitOf(BranchConfigs)

SpecBranch == InitBranch /\ [][Next]_vars

\* jal x0, 0
ProgSelfJal == <<W(0, 111)>>

\* beq x0, x0, 0
ProgSelfBeq == <<W(0, 99)>>

\* auipc x5, 0; addi x5, x5, 8; jalr x0, 0(x5)
ProgSelfJalr == <<W(0, 663), W(130, 33427), W(2, 32871)>>

\* auipc x5, 0; addi x5, x5, 12; csrrw x0, mepc, x5; mret
ProgSelfMret == <<W(0, 663), W(194, 33427), W(13330, 36979), W(12320, 115)>>

\* Programs that jump to the address of the jump, and some that jump
\* elsewhere.
JumpConfigs ==
    { <<ProgSelfJal, <<"I">>>>, <<ProgSelfBeq, <<"I">>>>, <<ProgSelfJalr, <<"I">>>>,
      <<ProgSelfMret, <<"Ziscr", "I">>>>, <<ProgLoop, <<"I">>>>,
      <<ProgIndirect, <<"I">>>>, <<ProgCsr, <<"Ziscr", "I">>>> }

InitJump == InitOf(JumpConfigs)

SpecJump == InitJump /\ [][Next]_vars

\* auipc x5, 0; jalr x5, 12(x5); (unknown); jal x1, +8; (unknown); (unknown)
ProgLink == <<W(0, 663), W(194, 33511), W(0, 0), W(128, 239), W(0, 0), W(0, 0)>>

\* Programs that jump and link: through a register that is also the
\* destination, to another address, and to the address of the jump.
LinkConfigs ==
    { <<ProgLink, <<"I">>>>, <<ProgIndirect, <<"I">>>>, <<ProgSelfJal, <<"I">>>>,
      <<ProgSelfJalr, <<"I">>>>, <<ProgLoop, <<"I">>>> }

InitLink == InitOf(LinkConfigs)

SpecLink == InitLink /\ [][Next]_vars

\* lui x5, 0x80000; auipc x6, 0xfffff; lui x7, 0x12345; auipc x8, 0x80000
ProgUpper == <<W(32768, 695), W(65535, 62231), W(4660, 21431), W(32768, 1047)>>

\* Programs of arithmetic and loads, whose results depend on how a value is
\* widened to 64 bits.
\* addi x5, x0, 1; slli x6, x5, 32; addi x7, x0, 33; sll x8, x5, x7;
\* addi x9, x0, -1; srl x10, x9, x7; sra x11, x9, x7; srai x13, x9, 4;
\* slli x12, x5, 3; srli x14, x9, 36
ProgShift == <<W(16, 659), W(514, 37651), W(528, 915), W(114, 37939),
               W(65520, 1171), W(116, 54579), W(16500, 54707), W(16452, 54931),
               W(50, 38419), W(580, 55059)>>

\* addiw x5, x0, 1
ProgWordImm == <<W(16, 667)>>

\* addw x6, x5, x5
ProgWordReg == <<W(82, 33595)>>

\* auipc x5, 0; addi x5, x5, 64; lw x6, -32(x5); lwu x7, -32(x5);
\* lb x8, -32(x5); lbu x9, -32(x5); lh x10, -32(x5); lhu x11, -32(x5);
\* and at 32 bytes from the entry the word 0x80818283.
ProgLoads == <<W(0, 663), W(1026, 33427), W(65026, 41731), W(65026, 58243),
               W(65026, 33795), W(65026, 50307), W(65026, 38147), W(65026, 54659),
               W(32897, 33411)>>

ArithConfigs ==
    { <<ProgUpper, <<"I">>>>, <<ProgShift, <<"I">>>>, <<ProgWordImm, <<"I">>>>,
      <<ProgWordReg, <<"I">>>>, <<ProgLoads, <<"I">>>> }

InitArith == InitOf(ArithConfigs)

SpecArith == InitArith /\ [][Next]_vars

\* li a7, 2; li a0, 0; ecall: puts of a string at the unmapped address 0.
ProgPuts == <<W(32, 2195), W(0, 1299), W(0, 115)>>

\* auipc a0, 0; li a7, 2; ecall: puts of the bytes of the program itself,
\* which run into the unmapped page after it before any NUL.
ProgPutsText == <<W(0, 1303), W(32, 2195), W(0, 115)>>

\* Programs that call puts, and one that calls exit.
PutsConfigs ==
    { <<ProgPuts, <<"I">>>>, <<ProgPutsText, <<"I">>>>, <<ProgExit, <<"I">>>>,
      <<ProgPuts, <<"Ziscr", "I">>>> }

InitPuts == InitOf(PutsConfigs)

SpecPuts == InitPuts /\ [][Next]_vars

\* addi x5, x0, -1; lw x5, 0(x0): a load from the unmapped address 0.
ProgLoadFault == <<W(65520, 659), W(0, 8835)>>

\* addi x5, x0, -1; sd x5, -4(x2): a store whose last four bytes lie past
\* the top of the stack.
ProgStoreFault == <<W(65520, 659), W(65105, 15907)>>

\* addi x5, x0, 1; csrrw x0, mepc, x5; mret: a return to the odd address 1.
ProgOdd == <<W(16, 659), W(13330, 36979), W(12320, 115)>>

\* jalr x0, 0(x0): a jump to the unmapped address 0.
ProgJumpOut == <<W(0, 103)>>

\* Programs whose steps fail: in a load, in a store, at an odd pc, on a word
\* no decoder claims, and in the fetch.
FailConfigs ==
    { <<ProgLoadFault, <<"I">>>>, <<ProgStoreFault, <<"I">>>>,
      <<ProgOdd, <<"Ziscr", "I">>>>, <<ProgZero, <<"I">>>>, <<ProgJumpOut, <<"I">>>> }

InitFail == InitOf(FailConfigs)

SpecFail == InitFail /\ [][Next]_vars

\* ------------------------------------------------- the debugger surface
EFAULT == 14

\* impl From<Error> for TargetError<Error>: the conversion, or its panic
\* (unimplemented!()) for any other variant.
TargetError_from(value) ==
    CASE value.kind = "InternalError" ->
           [panic |-> FALSE, err |-> Error("TargetError::Fatal", "", Zero, Zero)]
      [] value.kind = "MemAccessFault" ->
           [panic |-> FALSE, err |-> Error("TargetError::Errno", "", U(EFAULT), Zero)]
      [] OTHER -> [panic |-> TRUE, err |-> NoError]

\* A TargetResult returned to the stub, or a panic.
TargetOk(val) == RetOk("", val)
TargetErr(e) ==
    LET Of(t) == IF t.panic THEN RetPanic ELSE RetErr(t.err)
    IN  Of(TargetError_from(e))

\* A range read that reports the whole length whatever was read.
ReadAddrsFullCount(g, start_addr, data, i) ==
    [ret |-> TargetOk(U(Len(data))), data |-> data]

RECURSIVE Emulator_read_addrs(_, _, _, _)
\* SingleThreadBase::read_addrs from byte i of data on: the TargetResult and
\* the buffer.
Emulator_read_addrs(g, start_addr, data, i) ==
    LET Got(b) ==
            IF b.ok
            THEN Emulator_read_addrs(g, start_addr, [data EXCEPT ![i + 1] = b.val], i + 1)
            ELSE IF i > 0 THEN [ret |-> TargetOk(U(i)), data |-> data]
            ELSE [ret |-> TargetErr(b.err), data |-> data]
    IN  IF i = Len(data) THEN [ret |-> TargetOk(U(Len(data))), data |-> data]
        ELSE Got(read_u8(g, WrappingAdd(start_addr, U(i))))

RECURSIVE Emulator_write_addrs(_, _, _, _)
\* SingleThreadBase::write_addrs from byte i of data on: the TargetResult and
\* the guest memory it leaves.
Emulator_write_addrs(g, start_addr, data, i) ==
    LET Put(w) ==
            IF w.ok THEN Emulator_write_addrs(w.guest, start_addr, data, i + 1)
            ELSE [ret |-> TargetErr(w.err), guest |-> g]
    IN  IF i = Len(data) THEN [ret |-> TargetOk(Zero), guest |-> g]
        ELSE Put(write_u8(g, WrappingAdd(start_addr, U(i)), data[i + 1]))

\* u64::to_le_bytes.
ToLeBytes(v) == [i \in 1..8 |-> ByteOf(v, i - 1)]

\* SingleRegisterAccess::read_register; reg_id is <<"Gpr", id>>, <<"Pc", 0>>
\* or another register of the architecture.  copy_from_slice panics unless
\* the buffer is 8 bytes long.
Emulator_read_register(st, reg_id, buf) ==
    CASE reg_id[1] = "Gpr" ->
           IF Len(buf) # 8 THEN [ret |-> RetPanic, buf |-> buf]
           ELSE [ret |-> TargetOk(U(8)), buf |-> ToLeBytes(st.x[reg_id[2]])]
      [] reg_id[1] = "Pc" ->
           IF Len(buf) # 8 THEN [ret |-> RetPanic, buf |-> buf]
           ELSE [ret |-> TargetOk(U(8)), buf |-> ToLeBytes(st.pc)]
      [] OTHER ->
           [ret |-> RetErr(Error("TargetError::NonFatal", "", Zero, Zero)), buf |-> buf]

\* SingleRegisterAccess::write_register; try_into().unwrap() panics unless
\* val is 8 bytes long.
Emulator_write_register(st, reg_id, val) ==
    CASE reg_id[1] = "Gpr" ->
           IF Len(val) # 8 THEN [ret |-> RetPanic, state |-> st]
           ELSE [ret |-> TargetOk(Zero),
                 state |-> [st EXCEPT !.x[reg_id[2]] = FromLeBytes(val)]]
      [] reg_id[1] = "Pc" ->
           IF Len(val) # 8 THEN [ret |-> RetPanic, state |-> st]
           ELSE [ret |-> TargetOk(Zero), state |-> [st EXCEPT !.pc = FromLeBytes(val)]]
      [] OTHER ->
           [ret |-> RetErr(Error("TargetError::NonFatal", "", Zero, Zero)), state |-> st]

\* Emulator::set_watchpoint: the Result and the set it leaves.
Emulator_set_watchpoint(wps, gaddr) ==
    IF gaddr \in wps
    THEN [ok |-> FALSE, err |-> Error("RepeatedWatchpoint", "", gaddr, Zero),
          watchpoints |-> wps]
    ELSE [ok |-> TRUE, err |-> NoError, watchpoints |-> wps \cup {gaddr}]

\* Emulator::rm_watchpoint.
Emulator_rm_watchpoint(wps, gaddr) ==
    IF gaddr \notin wps
    THEN [ok |-> FALSE, err |-> Error("WatchpointNotFound", "", gaddr, Zero),
          watchpoints |-> wps]
    ELSE [ok |-> TRUE, err |-> NoError, watchpoints |-> wps \ {gaddr}]

\* The record of a debugger operation.
DbgLast(op, arg, buf) ==
    [Last(op, arg, NoStep(state, guest, MEPC), 0, "None", 0) EXCEPT !.buf = buf]

\* The effect of a debugger operation that returned r on the call state.
Returned(r) ==
    /\ ret' = r
    /\ call' = IF r.kind = "Panic" THEN "crashed" ELSE "idle"

\* SwBreakpoint::add_sw_breakpoint.
add_sw_breakpoint(addr) ==
    /\ call = "idle"
    /\ LET r == Emulator_set_breakpoint(breakpoints, addr)
       IN  /\ breakpoints' = r.breakpoints
           /\ Returned(IF r.ok THEN TargetOk(U(1)) ELSE TargetErr(r.err))
    /\ last' = DbgLast("add_sw_breakpoint", addr, << >>)
    /\ UNCHANGED <<builder, stack_size, state, guest, MEPC, decoders, watchpoints, mode, cycles,
                   first_step, loops>>

\* SwBreakpoint::remove_sw_breakpoint.
remove_sw_breakpoint(addr) ==
    /\ call = "idle"
    /\ LET r == Emulator_rm_breakpoint(breakpoints, addr)
       IN  /\ breakpoints' = r.breakpoints
           /\ Returned(IF r.ok THEN TargetOk(U(1)) ELSE TargetErr(r.err))
    /\ last' = DbgLast("remove_sw_breakpoint", addr, << >>)
    /\ UNCHANGED <<builder, stack_size, state, guest, MEPC, decoders, watchpoints, mode, cycles,
                   first_step, loops>>

\* Emulator::set_watchpoint.
set_watchpoint(gaddr) ==
    /\ call = "idle"
    /\ LET r == Emulator_set_watchpoint(watchpoints, gaddr)
       IN  /\ watchpoints' = r.watchpoints
           /\ Returned(IF r.ok THEN RetOk("", Zero) ELSE RetErr(r.err))
    /\ last' = DbgLast("set_watchpoint", gaddr, << >>)
    /\ UNCHANGED <<builder, stack_size, state, guest, MEPC, decoders, breakpoints, mode, cycles,
                   first_step, loops>>

\* Emulator::rm_watchpoint.
rm_watchpoint(gaddr) ==
    /\ call = "idle"
    /\ LET r == Emulator_rm_watchpoint(watchpoints, gaddr)
       IN  /\ watchpoints' = r.watchpoints
           /\ Returned(IF r.ok THEN RetOk("", Zero) ELSE RetErr(r.err))
    /\ last' = DbgLast("rm_watchpoint", gaddr, << >>)
    /\ UNCHANGED <<builder, stack_size, state, guest, MEPC, decoders, breakpoints, mode, cycles,
                   first_step, loops>>

\* SingleThreadBase::read_addrs into a buffer data.
read_addrs(start_addr, data) ==
    /\ call = "idle"
    /\ LET r == Emulator_read_addrs(guest, start_addr, data, 0)
       IN  /\ Returned(r.ret)
           /\ last' = DbgLast("read_addrs", start_addr, r.data)
    /\ UNCHANGED <<builder, stack_size, state, guest, MEPC, decoders, breakpoints, watchpoints, mode,
                   cycles, first_step, loops>>

\* SingleThreadBase::write_addrs.
write_addrs(start_addr, data) ==
    /\ call = "idle"
    /\ LET r == Emulator_write_addrs(guest, start_addr, data, 0)
       IN  /\ Returned(r.ret)
           /\ guest' = r.guest
    /\ last' = DbgLast("write_addrs", start_addr, data)
    /\ UNCHANGED <<builder, stack_size, state, MEPC, decoders, breakpoints, watchpoints, mode,
                   cycles, first_step, loops>>

\* SingleThreadBase::read_registers: the registers go out as the 33 values
\* x[0..31], pc.
read_registers ==
    /\ call = "idle"
    /\ Returned(TargetOk(Zero))
    /\ last' = DbgLast("read_registers", Zero,
                       [i \in 1..33 |-> IF i = 33 THEN state.pc ELSE state.x[i - 1]])
    /\ UNCHANGED <<builder, stack_size, state, guest, MEPC, decoders, breakpoints, watchpoints, mode,
                   cycles, first_step, loops>>

\* A register write that also leaves the debug mode.
WriteRegistersLeavesDebug(regs) ==
    /\ call = "idle"
    /\ state' = [state EXCEPT !.x = [i \in 0..31 |-> regs[i + 1]], !.pc = regs[33]]
    /\ mode' = "Run"
    /\ Returned(TargetOk(Zero))
    /\ last' = DbgLast("write_registers", Zero, regs)
    /\ UNCHANGED <<builder, stack_size, guest, MEPC, decoders, breakpoints, watchpoints,
                   cycles, first_step, loops>>

\* SingleThreadBase::write_registers.
write_registers(regs) ==
    /\ call = "idle"
    /\ state' = [state EXCEPT !.x = [i \in 0..31 |-> regs[i + 1]], !.pc = regs[33]]
    /\ Returned(TargetOk(Zero))
    /\ last' = DbgLast("write_registers", Zero, regs)
    /\ UNCHANGED <<builder, stack_size, guest, MEPC, decoders, breakpoints, watchpoints, mode,
                   cycles, first_step, loops>>

\* SingleRegisterAccess::read_register.
read_register(reg_id, buf) ==
    /\ call = "idle"
    /\ LET r == Emulator_read_register(state, reg_id, buf)
       IN  /\ Returned(r.ret)
           /\ last' = DbgLast("read_register", U(reg_id[2]), r.buf)
    /\ UNCHANGED <<builder, stack_size, state, guest, MEPC, decoders, breakpoints, watchpoints, mode,
                   cycles, first_step, loops>>

\* SingleRegisterAccess::write_register.
write_register(reg_id, val) ==
    /\ call = "idle"
    /\ LET r == Emulator_write_register(state, reg_id, val)
       IN  /\ Returned(r.ret)
           /\ state' = r.state
    /\ last' = DbgLast("write_register", U(reg_id[2]), val)
    /\ UNCHANGED <<builder, stack_size, guest, MEPC, decoders, breakpoints, watchpoints, mode,
                   cycles, first_step, loops>>

\* Emulator::debug once the stub's session has ended: reason is how
\* run_blocking returned.
debug_session_end(reason) ==
    /\ call = "idle"
    /\ mode' = IF reason = "Disconnect" THEN "Run" ELSE mode
    /\ Returned(IF reason \in {"Disconnect", "TargetExited", "TargetTerminated", "Err"}
                THEN RetOk("", Zero) ELSE RetPanic)
    /\ last' = DbgLast("debug_session_end", Zero, << >>)
    /\ UNCHANGED <<builder, stack_size, state, guest, MEPC, decoders, breakpoints, watchpoints,
                   cycles, first_step, loops>>

\* The emulator the debugger is attached to.
DbgConfigs == { <<ProgLoop, <<"I">>>> }

InitDbg == InitOf(DbgConfigs)

\* The address a watchpoint is set at: the stack slot the program stores to.
WpAddrs == {W(32767, 65528)}

\* The ranges the debugger reads: inside the code segment, across its
\* page-aligned end 0x11000, from the unmapped 0x11000 and from 0, and an
\* empty one.  The buffer comes in filled with 0xEE.
ReadRanges ==
    { <<ENTRY, <<238, 238, 238>>>>,
      <<W(1, 4094), <<238, 238, 238, 238>>>>,
      <<W(1, 4096), <<238, 238>>>>,
      <<Zero, <<238>>>>,
      <<ENTRY, << >>>> }

\* The ranges the debugger writes: across the end of the stack at
\* 0x80000000, and the read-only code.
WriteRanges ==
    { <<W(32767, 65535), <<3, 4>>>>,
      <<ENTRY, <<5>>>> }

\* The registers the debugger accesses one by one (Fpr is a register of the
\* architecture that the emulator does not have), and the buffers it passes.
RegIds == { <<"Gpr", 5>>, <<"Pc", 0>>, <<"Fpr", 0>> }
RegBufs == { ToLeBytes(WrappingAdd(ENTRY, U(4))), <<0, 0, 0, 0>> }

\* The register file the debugger writes back: the current one restarted at
\* the entry point.
RegFiles == { [i \in 1..33 |-> IF i = 33 THEN ENTRY ELSE state.x[i - 1]] }

EndReasons == {"Disconnect", "TargetExited"}

NextDbg ==
    \/ \E a \in BpAddrs : set_breakpoint(a)
    \/ \E a \in BpAddrs : rm_breakpoint(a)
    \/ \E signal \in BOOLEAN : resume(signal)
    \/ \E signal \in BOOLEAN : single_step(signal)
    \/ step
    \/ force_step
    \/ run
    \/ run_loop(MaxDbgLoops)
    \/ run_debug
    \/ run_debug_loop(MaxDbgLoops)
    \/ \E a \in BpAddrs : add_sw_breakpoint(a)
    \/ \E a \in BpAddrs : remove_sw_breakpoint(a)
    \/ \E a \in WpAddrs : set_watchpoint(a)
    \/ \E a \in WpAddrs : rm_watchpoint(a)
    \/ \E r \in ReadRanges : read_addrs(r[1], r[2])
    \/ \E w \in WriteRanges : write_addrs(w[1], w[2])
    \/ read_registers
    \/ \E regs \in RegFiles : write_registers(regs)
    \/ \E id \in RegIds, buf \in RegBufs : read_register(id, buf)
    \/ \E id \in RegIds \ {<<"Gpr", 5>>}, val \in RegBufs : write_register(id, val)
    \/ \E reason \in EndReasons : debug_session_end(reason)

SpecDbg == InitDbg /\ [][NextDbg]_vars

\* ------------------------------------------------ guest memory, alone
\* A call of add_segment.
SegRequest(gaddr_start, len, flags, has_data, init_data) ==
    [gaddr_start |-> gaddr_start, len |-> len, flags |-> flags,
     has_data |-> has_data, init_data |-> init_data]

NoRequest == SegRequest(Zero, 0, {}, FALSE, << >>)

\* 0xfffffffffffff000 + off, an address in the last page of the address
\* space.
TopPage(off) == <<61440 + off, 65535, 65535, 65535>>

\* The requests that lie in the last page: their rounding up overflows.
TopRequests ==
    { SegRequest(TopPage(2048), 256, {"READ", "WRITE"}, TRUE, <<170>>),
      SegRequest(TopPage(2560), 16, {"READ"}, FALSE, << >>) }

\* The calls of add_segment made: 0x10000 of length 4097 with two bytes of
\* data; an unaligned 0x10800 in the same first page; 0x11800, in the second
\* page, which the first covers only with padding; 0x12000 right after it;
\* a zero length; data longer than the length; two in the last page of the
\* address space; and one whose end wraps around.
SegRequests ==
    { SegRequest(W(1, 0), 4097, {"READ", "WRITE"}, TRUE, <<170, 187>>),
      SegRequest(W(1, 2048), 256, {"READ"}, FALSE, << >>),
      SegRequest(W(1, 6144), 16, {"WRITE"}, FALSE, << >>),
      SegRequest(W(1, 8192), 1, {"EXECUTE"}, TRUE, <<19>>),
      SegRequest(W(1, 16384), 0, {"READ"}, FALSE, << >>),
      SegRequest(W(1, 16384), 1, {"READ"}, TRUE, <<1, 2>>),
      SegRequest(TopPage(4080), 32, {"READ"}, FALSE, << >>) }
    \cup TopRequests

\* The calls with the build and the host they meet: overflow checks matter
\* to the requests in the last page only, and the host refuses the mapping
\* of one request.
SegCalls ==
    { c \in SegRequests \X BOOLEAN \X BOOLEAN :
        /\ c[2] => c[1] \in TopRequests
        /\ ~c[3] => c[1].gaddr_start = W(1, 8192) }

\* The addresses probed.
ProbeAddrs ==
    { Zero, W(1, 0), W(1, 1), W(1, 2), W(1, 2047), W(1, 2048), W(1, 4095),
      W(1, 4096), W(1, 6144), W(1, 8191), W(1, 8192), W(1, 12288),
      TopPage(0), TopPage(2048) }

\* The record of a guest memory operation: its name, address, size in bytes
\* (or length), access and value, the add_segment call, the ELF file loaded,
\* and the guest memory it started from.
MemLast(op, arg, n, access, val, req) ==
    [op |-> op, arg |-> arg, n |-> n, access |-> access, val |-> val,
     req |-> req, elf |-> NoElf, mem |-> guest]

\* GuestMem::new, alone.
InitMemOf(g) ==
    /\ guest = g
    /\ builder = EmulatorBuilder_new
    /\ stack_size = STACK_SIZE
    /\ state = StateDefault
    /\ MEPC = Zero
    /\ decoders = << >>
    /\ breakpoints = {}
    /\ watchpoints = {}
    /\ mode = "Run"
    /\ call = "idle"
    /\ cycles = 0
    /\ first_step = TRUE
    /\ loops = 0
    /\ ret = RetNone
    /\ last = MemLast("new", Zero, 0, "", Zero, NoRequest)

InitSeg == InitMemOf(GuestMemNew)

\* GuestMem::add_segment is called; loops counts the calls.
GuestMem_add_segment(req, checked, mapped, cap) ==
    /\ call = "idle"
    /\ loops < cap
    /\ LET r == add_segment(guest, req.gaddr_start, req.len, req.flags,
                            req.has_data, req.init_data, checked, mapped)
       IN  /\ guest' = r.guest
           /\ Returned(CASE r.panic -> RetPanic
                         [] r.ok -> RetOk("", Zero)
                         [] OTHER -> RetErr(r.err))
    /\ loops' = loops + 1
    /\ last' = MemLast("add_segment", req.gaddr_start, req.len, "", Zero, req)
    /\ UNCHANGED <<builder, stack_size, state, MEPC, decoders, breakpoints, watchpoints, mode, cycles,
                   first_step>>

\* GuestMem::decompose (or decompose_mut) is called.
GuestMem_decompose(gaddr, access) ==
    /\ call = "idle"
    /\ LET d == decompose(guest, gaddr, access)
       IN  Returned(IF d.ok THEN RetOk("", d.base) ELSE RetErr(d.err))
    /\ last' = MemLast("decompose", gaddr, 1, access, Zero, NoRequest)
    /\ UNCHANGED <<builder, stack_size, state, guest, MEPC, decoders, breakpoints, watchpoints, mode,
                   cycles, first_step, loops>>

\* GuestMem::read_u8 .. read_u64 is called, n the number of bytes.
GuestMem_read(gaddr, n) ==
    /\ call = "idle"
    /\ LET r == ReadUN(guest, gaddr, n)
       IN  Returned(IF r.ok THEN RetOk("", r.val) ELSE RetErr(r.err))
    /\ last' = MemLast("read", gaddr, n, "Read", Zero, NoRequest)
    /\ UNCHANGED <<builder, stack_size, state, guest, MEPC, decoders, breakpoints, watchpoints, mode,
                   cycles, first_step, loops>>

\* GuestMem::write_u8 .. write_u64 is called with the low n bytes of value;
\* cycles counts the writes.
GuestMem_write(gaddr, n, value, cap) ==
    /\ call = "idle"
    /\ cycles < cap
    /\ LET w == WriteBytes(guest, gaddr, value, n, 0)
       IN  /\ guest' = w.guest
           /\ Returned(IF w.ok THEN RetOk("", Zero) ELSE RetErr(w.err))
    /\ cycles' = cycles + 1
    /\ last' = MemLast("write", gaddr, n, "Write", value, NoRequest)
    /\ UNCHANGED <<builder, stack_size, state, MEPC, decoders, breakpoints, watchpoints, mode,
                   first_step, loops>>

NextSeg ==
    \/ \E c \in SegCalls : GuestMem_add_segment(c[1], c[2], c[3], MaxAdds)
    \/ \E a \in ProbeAddrs, access \in {"Read", "Write", "Execute"} :
          GuestMem_decompose(a, access)
    \/ \E a \in ProbeAddrs : GuestMem_read(a, 1)
    \/ \E a \in ProbeAddrs : GuestMem_write(a, 1, U(90), MaxSegWrites)

SpecSeg == InitSeg /\ [][NextSeg]_vars

\* A guest with one READ|WRITE segment asked for at the unaligned 0x10800,
\* of 0x801 bytes (pages 0x10000 and 0x11000), and a second one at 0x12000.
RWGuest ==
    add_segment(
        add_segment(GuestMemNew, W(1, 2048), 2049, {"READ", "WRITE"}, FALSE, << >>,
                    FALSE, TRUE).guest,
        W(1, 8192), 16, {"READ", "WRITE"}, FALSE, << >>, FALSE, TRUE).guest

InitRW == InitMemOf(RWGuest)

\* The addresses written and read: an odd one, one whose wider accesses
\* cross the page boundary 0x11000 inside the segment, and one in the first
\* page below 0x10800.
RWAddrs == { W(1, 2049), W(1, 4093), W(1, 2044) }

\* The sizes of write_u8 .. write_u64, in bytes.
RWSizes == {1, 2, 4, 8}

\* The values written, 0x8877665544332211 and 0xa1a2a3a4a5a6a7a8.
RWValues == { <<8721, 17459, 26197, 34935>>, <<42920, 42406, 41892, 41378>> }

NextRW ==
    \/ \E a \in RWAddrs, n \in RWSizes, v \in RWValues :
          GuestMem_write(a, n, v, MaxRWWrites)
    \/ \E a \in RWAddrs, n \in RWSizes : GuestMem_read(a, n)

SpecRW == InitRW /\ [][NextRW]_vars

\* A guest with a READ|WRITE page at 0x10000, a READ page right after it at
\* 0x11000, nothing at 0x12000, a READ|WRITE page at 0x13000 and nothing
\* after it.
PartialGuest ==
    add_segment(
        add_segment(
            add_segment(GuestMemNew, W(1, 0), 4096, {"READ", "WRITE"}, FALSE, << >>,
                        FALSE, TRUE).guest,
            W(1, 4096), 4096, {"READ"}, FALSE, << >>, FALSE, TRUE).guest,
        W(1, 12288), 4096, {"READ", "WRITE"}, FALSE, << >>, FALSE, TRUE).guest

InitPartial == InitMemOf(PartialGuest)

\* The addresses written and read: 0x10ffe, two bytes before the READ page;
\* 0x13ffd, three bytes before the end of the last page;
\* and 0x11000, the READ page.
PartialAddrs == { W(1, 4094), W(1, 16381), W(1, 4096) }

\* The bytes a debugger writes.
PartialData == { <<17, 34, 51, 68>> }

NextPartial ==
    \/ \E a \in PartialAddrs, n \in RWSizes :
          GuestMem_write(a, n, <<42920, 42406, 41892, 41378>>, MaxRWWrites)
    \/ \E a \in PartialAddrs, n \in RWSizes : GuestMem_read(a, n)
    \/ \E a \in PartialAddrs, data \in PartialData : write_addrs(a, data)

SpecPartial == InitPartial /\ [][NextPartial]_vars

\* The ELF files loaded.  Their headers are of type PT_LOAD, PT_NOTE (4) or
\* PT_GNU_STACK (0x6474e551).
ElfFiles ==
    { \* text R+X with a BSS tail, a note, data R+W
      Elf(TRUE, TRUE, W(1, 0),
          << ProgramHeader(PT_LOAD, 5, W(1, 0), 4097, <<170, 187>>, TRUE),
             ProgramHeader(4, 4, W(3, 0), 16, <<1>>, TRUE),
             ProgramHeader(PT_LOAD, 6, W(1, 10240), 32, <<7>>, TRUE) >>),
      \* write-only and execute-only segments, a flag word with other bits
      Elf(TRUE, TRUE, W(2, 4),
          << ProgramHeader(PT_LOAD, 2, W(2, 0), 8, << >>, TRUE),
             ProgramHeader(PT_LOAD, 9, W(2, 4096), 4, <<19>>, TRUE),
             ProgramHeader(1685382481, 6, Zero, 0, << >>, TRUE) >>),
      \* no loadable segment
      Elf(TRUE, TRUE, W(1, 0), << ProgramHeader(4, 4, W(3, 0), 16, <<1>>, TRUE) >>),
      \* two loadable segments in one page
      Elf(TRUE, TRUE, W(1, 0),
          << ProgramHeader(PT_LOAD, 5, W(1, 0), 16, <<1>>, TRUE),
             ProgramHeader(PT_LOAD, 6, W(1, 2048), 16, <<2>>, TRUE) >>),
      \* two loadable segments in the last page of the address space
      Elf(TRUE, TRUE, TopPage(2048),
          << ProgramHeader(PT_LOAD, 6, TopPage(2048), 256, <<170>>, TRUE),
             ProgramHeader(PT_LOAD, 4, TopPage(2560), 16, << >>, TRUE) >>),
      \* more file bytes than memory; file bytes past the end of the file
      Elf(TRUE, TRUE, W(1, 0),
          << ProgramHeader(PT_LOAD, 4, W(1, 0), 1, <<1, 2>>, TRUE) >>),
      Elf(TRUE, TRUE, W(1, 0),
          << ProgramHeader(PT_LOAD, 4, W(1, 0), 4, <<1, 2>>, FALSE) >>),
      \* a file shorter than a header; a header of another machine
      Elf(FALSE, FALSE, Zero, << >>),
      Elf(TRUE, FALSE, W(1, 0),
          << ProgramHeader(PT_LOAD, 5, W(1, 0), 16, <<1>>, TRUE) >>) }

\* GuestMem::load_elf is called; loops counts the calls.
GuestMem_load_elf(elf, checked, mapped, cap) ==
    /\ call = "idle"
    /\ loops < cap
    /\ LET r == load_elf(guest, elf, checked, mapped)
       IN  /\ guest' = r.guest
           /\ Returned(CASE r.kind = "Panic" -> RetPanic
                         [] r.kind = "Ok" -> RetOk("", r.entry)
                         [] OTHER -> RetErr(r.err))
    /\ loops' = loops + 1
    /\ last' = [MemLast("load_elf", elf.e_entry, 0, "", Zero, NoRequest)
                   EXCEPT !.elf = elf]
    /\ UNCHANGED <<builder, stack_size, state, MEPC, decoders, breakpoints, watchpoints, mode, cycles,
                   first_step>>

\* The addresses read after a load.
ElfProbes ==
    { W(1, 0), W(1, 1), W(1, 2), W(1, 8191), W(1, 8192), W(1, 10240),
      W(1, 10241), W(2, 0), W(2, 4096), W(3, 0), TopPage(2048) }

NextElf ==
    \/ \E elf \in ElfFiles, checked \in BOOLEAN :
          GuestMem_load_elf(elf, checked, TRUE, MaxLoads)
    \/ \E a \in ElfProbes, n \in {1, 4} : GuestMem_read(a, n)
    \/ \E a \in ElfProbes, access \in {"Write", "Execute"} :
          GuestMem_decompose(a, access)

SpecElf == InitSeg /\ [][NextElf]_vars

\* ------------------------------------------- building and loading
\* The record of a builder or loader operation: its name, the InsnSet or
\* stack size given, the ELF file loaded, and the builder, hart state and
\* guest memory it started from.
BuildLast(op, set, size, elf) ==
    [op |-> op, set |-> set, size |-> size, elf |-> elf, builder |-> builder,
     pre |-> state, mem |-> guest]

\* Emulator::new(): a builder, and no emulator yet (call is "building").
InitBuild ==
    /\ builder = EmulatorBuilder_new
    /\ stack_size = 0
    /\ state = StateDefault
    /\ guest = GuestMemNew
    /\ MEPC = Zero
    /\ decoders = << >>
    /\ breakpoints = {}
    /\ watchpoints = {}
    /\ mode = "Run"
    /\ call = "building"
    /\ cycles = 0
    /\ first_step = TRUE
    /\ loops = 0
    /\ ret = RetNone
    /\ last = BuildLast("new", "", 0, NoElf)

\* A step of the builder chain.
Chained(op, set, size, b) ==
    /\ call = "building"
    /\ builder' = b
    /\ last' = BuildLast(op, set, size, NoElf)
    /\ UNCHANGED <<stack_size, state, guest, MEPC, decoders, breakpoints,
                   watchpoints, mode, call, cycles, first_step, loops, ret>>

\* EmulatorBuilder::syscall.
builder_syscall == Chained("syscall", "", 0, [builder EXCEPT !.syscall = TRUE])

\* EmulatorBuilder::decoder.
builder_decoder(set) ==
    /\ Len(builder.decoders) < MaxDecoders
    /\ Chained("decoder", set, 0,
               [builder EXCEPT !.decoders = Append(builder.decoders, set)])

\* EmulatorBuilder::stack_size.
builder_stack_size(size) ==
    Chained("stack_size", "", size, [builder EXCEPT !.stack_size = size])

\* EmulatorBuilder::debug.
builder_debug == Chained("debug", "", 0, [builder EXCEPT !.mode = "Debug(Step)"])

\* EmulatorBuilder::build: on Ok the emulator exists (call is "idle"), on Err
\* the builder is gone and there is none (call is "failed").
build ==
    /\ call = "building"
    /\ LET r == EmulatorBuilder_build(builder)
       IN  /\ ret' = IF r.ok THEN RetOk("", Zero) ELSE RetErr(r.err)
           /\ call' = IF r.ok THEN "idle" ELSE "failed"
           /\ decoders' = r.decoders
    /\ guest' = GuestMemNew
    /\ stack_size' = builder.stack_size
    /\ breakpoints' = {}
    /\ watchpoints' = {}
    /\ mode' = builder.mode
    /\ last' = BuildLast("build", "", 0, NoElf)
    /\ UNCHANGED <<builder, state, MEPC, cycles, first_step, loops>>

\* Emulator::load_elf is called; loops counts the calls.
load_program(elf, checked, mapped, cap) ==
    /\ call = "idle"
    /\ loops < cap
    /\ LET r == Emulator_load_elf(state, guest, elf, stack_size, checked, mapped)
       IN  /\ state' = r.state
           /\ guest' = r.guest
           /\ Returned(CASE r.kind = "Panic" -> RetPanic
                         [] r.kind = "Ok" -> RetOk("", Zero)
                         [] OTHER -> RetErr(r.err))
    /\ loops' = loops + 1
    /\ last' = BuildLast("load_elf", "", 0, elf)
    /\ UNCHANGED <<builder, stack_size, MEPC, decoders, breakpoints, watchpoints,
                   mode, cycles, first_step>>

\* The InsnSets asked for: three with a decoder, one (M) without.
InsnSets == {"I", "Ziscr", "Zifencei", "M"}

\* The stack sizes asked for: none, one that is not a number of pages, a page.
StackSizes == {0, 6144, 4096}

\* A program whose only segment lies in the default stack.
ElfInStack ==
    Elf(TRUE, TRUE, W(32767, 0),
        << ProgramHeader(PT_LOAD, 5, W(32767, 0), 16, <<19>>, TRUE) >>)

NextBuild ==
    \/ builder_syscall
    \/ \E set \in InsnSets : builder_decoder(set)
    \/ \E size \in StackSizes : builder_stack_size(size)
    \/ builder_debug
    \/ build
    \/ \E elf \in ElfFiles \cup {ElfInStack}, checked \in BOOLEAN, mapped \in BOOLEAN :
          load_program(elf, checked, mapped, MaxLoads)

SpecBuild == InitBuild /\ [][NextBuild]_vars

\* ------------------------------------------------- immediates, alone
\* The words of the tests of extract_imm with the form they are decoded in
\* and the value expected after sign extension.
ImmExamples ==
    { <<W(513, 275), "I", <<32, 0, 0, 0>>>>,
      <<W(65520, 787), "I", <<65535, 65535, 65535, 65535>>>>,
      <<W(132, 8963), "I", <<8, 0, 0, 0>>>>,
      <<W(83, 9763), "S", <<12, 0, 0, 0>>>>,
      <<W(65140, 3107), "S", <<65528, 65535, 65535, 65535>>>>,
      <<W(0, 1123), "B", <<8, 0, 0, 0>>>>,
      <<W(65489, 7907), "B", <<65532, 65535, 65535, 65535>>>>,
      <<W(4660, 21815), "U", <<20480, 4660, 0, 0>>>>,
      <<W(640, 239), "J", <<40, 0, 0, 0>>>>,
      <<W(65408, 111), "J", <<2040, 65520, 65535, 65535>>>> }

\* The words decoded: those of the tests, every word with a single bit set,
\* and a few with many.
RawWords ==
    {e[1] : e \in ImmExamples}
    \cup {FromBits([i \in 0..63 |-> IF i = b THEN 1 ELSE 0]) : b \in 0..31}
    \cup { W(65535, 65535), W(32768, 0), W(32767, 65535), W(1600, 659), W(65477, 1155), W(65535, 62907), W(0, 0) }

InsnTypes == {"I", "S", "B", "U", "J"}

\* The record of a call of extract_imm.
ImmLast(op, raw, insn_type, imm) ==
    [op |-> op, raw |-> raw, insn_type |-> insn_type, imm |-> imm]

InitImm ==
    /\ builder = EmulatorBuilder_new
    /\ stack_size = 0
    /\ state = StateDefault
    /\ guest = GuestMemNew
    /\ MEPC = Zero
    /\ decoders = << >>
    /\ breakpoints = {}
    /\ watchpoints = {}
    /\ mode = "Run"
    /\ call = "idle"
    /\ cycles = 0
    /\ first_step = TRUE
    /\ loops = 0
    /\ ret = RetNone
    /\ last = ImmLast("new", Zero, "", Zero)

\* Instruction::extract_imm is called.
Instruction_extract_imm(raw, insn_type) ==
    /\ ret' = RetOk("", extract_imm(raw, insn_type))
    /\ last' = ImmLast("extract_imm", raw, insn_type, extract_imm(raw, insn_type))
    /\ UNCHANGED <<builder, stack_size, state, guest, MEPC, decoders, breakpoints,
                   watchpoints, mode, call, cycles, first_step, loops>>

NextImm == \E raw \in RawWords, insn_type \in InsnTypes :
              Instruction_extract_imm(raw, insn_type)

SpecImm == InitImm /\ [][NextImm]_vars

\* ------------------------------------------------------------ properties
\* The code segment holds exactly the words ws.
Loaded(ws) ==
    guest.segments[ENTRY].host_mmap =
        [o \in 0..(4 * Len(ws) - 1) |-> WordsBytes(ws)[o + 1]]

\* The last operation called hart.step, and hart.step returned Ok.
StepCompleted == last.hart.kind = "Ok"

\* The pc that follows the instruction the last hart.step fetched.
NextPc == WrappingAdd(last.hart.cur_pc, U(4))

\* C1: after every completed step (a hart step, alone or under force_step
\* with its syscall dispatch) x[0] is 0, whatever the instruction's
\* destination register.
C1_ZeroRegisterAfterStep == StepCompleted => state.x[0] = Zero

\* The executors that are not control flow: loads, stores, ALU operations,
\* lui, auipc, ecall, fence.i.
NonControlFlow ==
    {"rv64i_lb", "rv64i_lh", "rv64i_lw", "rv64i_ld", "rv64i_lbu", "rv64i_lhu",
     "rv64i_lwu", "rv64i_sb", "rv64i_sh", "rv64i_sw", "rv64i_sd",
     "rv64i_addi", "rv64i_slli", "rv64i_slti", "rv64i_sltiu", "rv64i_xori",
     "rv64i_srli", "rv64i_srai", "rv64i_ori", "rv64i_andi",
     "rv64i_add", "rv64i_sub", "rv64i_sll", "rv64i_slt", "rv64i_sltu",
     "rv64i_xor", "rv64i_srl", "rv64i_sra", "rv64i_or", "rv64i_and",
     "rv64i_lui", "rv64i_auipc", "rv64i_ecall", "rv64i_fence_i", "zifencei"}

\* Whether the branch the last hart.step fetched is taken, by the ISA's
\* comparison of x[rs1] and x[rs2] as the step saw them (x[0] cleared).
LastBranchTaken ==
    LET x == [last.pre.x EXCEPT ![0] = Zero]
        a == x[BitsOf(last.hart.raw, 15, 5)]
        b == x[BitsOf(last.hart.raw, 20, 5)]
        e == last.hart.executor
    IN  CASE e = "rv64i_beq"  -> a = b
          [] e = "rv64i_bne"  -> a # b
          [] e = "rv64i_blt"  -> LtS(a, b)
          [] e = "rv64i_bge"  -> ~LtS(a, b)
          [] e = "rv64i_bltu" -> LtU(a, b)
          [] e = "rv64i_bgeu" -> ~LtU(a, b)
          [] OTHER -> TRUE

\* The Instruction variant an executor unwraps.
FormOf(e) ==
    CASE e \in {"rv64i_sb", "rv64i_sh", "rv64i_sw", "rv64i_sd"} -> "S"
      [] e \in {"rv64i_add", "rv64i_sub", "rv64i_sll", "rv64i_slt", "rv64i_sltu",
                "rv64i_xor", "rv64i_srl", "rv64i_sra", "rv64i_or", "rv64i_and"} -> "R"
      [] e \in {"rv64i_lui", "rv64i_auipc"} -> "U"
      [] OTHER -> "I"

\* The Instruction of a given variant built from the fields of the word the
\* last hart.step fetched.
LastInsnAs(form) ==
    LET raw == last.hart.raw
    IN  Insn(form, raw, BitsOf(raw, 0, 7), BitsOf(raw, 7, 5), BitsOf(raw, 12, 3),
             BitsOf(raw, 15, 5), BitsOf(raw, 20, 5), BitsOf(raw, 25, 7),
             extract_imm(raw, IF form = "R" THEN "I" ELSE form))

\* C2: the PC update rule.  When the executor leaves pc equal to the pc
\* captured before it ran, the step ends at that pc + 4; no executor that is
\* not control flow modifies pc (the one that ran, and each of them applied
\* to the state a force_step leaves); an untaken branch ends at pc + 4.
C2_PcUpdateRule ==
    /\ StepCompleted =>
         /\ last.hart.exec_pc = last.hart.cur_pc => state.pc = NextPc
         /\ last.hart.executor \in NonControlFlow =>
                last.hart.exec_pc = last.hart.cur_pc
         /\ ~LastBranchTaken => state.pc = NextPc
    /\ last.op = "force_step" =>
         \A e \in NonControlFlow :
            Execute(e, state, guest, LastInsnAs(FormOf(e)), MEPC).state.pc = state.pc

\* C2's case: an untaken branch completed, and the step advanced the pc.
C2_Witness ==
    /\ StepCompleted
    /\ last.hart.executor = "rv64i_bne"
    /\ ~LastBranchTaken
    /\ last.hart.exec_pc = last.hart.cur_pc
    /\ state.pc = NextPc

\* C3: on the program li a0, 42; li a7, 0; ecall, a run() that has ended has
\* returned Ok(ExitReason::Exited(42)).
C3_RunReturnsExited ==
    (Loaded(ProgExit) /\ last.op = "run_loop" /\ call # "run")
        => ret = RetOk("Exited", U(42))

\* The word of ecall.
ECALL == W(0, 115)

\* C4: when force_step (alone or in run's loop) fetches an ecall with the I
\* decoder registered, the step sets the latch to Ecall without the executor
\* changing pc, ends at pc + 4 and returns Some(Ecall), and the syscall
\* handler is invoked exactly once.
C4_EcallDispatched ==
    (/\ last.op \in {"force_step", "run_loop"}
     /\ last.hart.kind # "None"
     /\ last.hart.raw = ECALL
     /\ \E i \in DOMAIN decoders : decoders[i] = "I")
        => /\ StepCompleted
           /\ last.hart.cause = "Ecall"
           /\ last.hart.exec_pc = last.hart.cur_pc
           /\ state.pc = NextPc
           /\ last.handled = 1

\* C5: Emulator::step with the pc in the breakpoint set returns the exit
\* reason BreakpointHit and changes neither registers, pc, guest memory nor
\* the breakpoint set; with the pc not in the set (the breakpoint removed) a
\* step that completes executes one instruction and returns DoneStep.
C5_StepAtBreakpoint ==
    /\ (last.op = "step" /\ last.pre.pc \in last.bps)
          => /\ ret.kind = "Ok" /\ ret.reason = "BreakpointHit"
             /\ state = last.pre /\ guest = last.mem /\ breakpoints = last.bps
    /\ (last.op = "step" /\ last.pre.pc \notin last.bps /\ StepCompleted)
          => /\ ret = RetOk("DoneStep", Zero)
             /\ last.insns = 1

\* C6: the first step of run_debug in Debug(Continue), entered with the pc in
\* the breakpoint set, is forced: hart.step is called on the instruction at
\* that pc and run_debug returns neither BreakpointHit nor the breakpoint as
\* an error.
C6_FirstStepForced ==
    (/\ last.op = "run_debug_loop"
     /\ mode = "Debug(Continue)"
     /\ loops = 1
     /\ last.pre.pc \in last.bps)
        => /\ last.hart.kind # "None"
           /\ ~(ret.kind = "Ok" /\ ret.reason = "BreakpointHit")
           /\ ~(ret.kind = "Err" /\ ret.err.kind = "BreakpointHit")

\* C7: on the second or a later step of run_debug in Debug(Continue) with
\* the pc in the breakpoint set, run_debug returns
\* Ok(ExitReason::BreakpointHit(pc)) and the instruction at pc is not
\* executed; on the exiting program a run_debug that has ended without a
\* breakpoint set has returned Ok(ExitReason::Exited(42)).
C7_LaterBreakpointReported ==
    /\ (/\ last.op = "run_debug_loop"
        /\ mode = "Debug(Continue)"
        /\ loops >= 2
        /\ last.pre.pc \in last.bps)
           => /\ ret = RetOk("BreakpointHit", last.pre.pc)
              /\ last.hart.kind = "None"
              /\ state = last.pre
    /\ (/\ last.op = "run_debug_loop"
        /\ mode = "Debug(Continue)"
        /\ Loaded(ProgExit)
        /\ last.bps = {}
        /\ call # "run_debug")
           => ret = RetOk("Exited", U(42))

\* C8: in Debug(Continue), run_debug calls the poller exactly in the
\* iterations whose instruction brings the count of instructions executed
\* since entry to a positive multiple of POLL_INTERVAL; cycles is that count;
\* when the poller answers true run_debug returns IncomingData, when it
\* answers false the loop goes on, and IncomingData is returned at no other
\* time.
C8_PollAtInterval ==
    (last.op = "run_debug_loop" /\ mode = "Debug(Continue)")
        => /\ StepCompleted => cycles = last.insns
           /\ last.polled # "None" <=>
                  (StepCompleted /\ last.insns > 0 /\ last.insns % POLL_INTERVAL = 0)
           /\ last.polled = "true" => (ret = RetOk("IncomingData", Zero) /\ call = "idle")
           /\ last.polled = "false" => (ret = RetNone /\ call = "run_debug")
           /\ (ret.kind = "Ok" /\ ret.reason = "IncomingData") => last.polled = "true"

\* C8's case: the poller declined at 1024 instructions and answers true at
\* 2048, and run_debug returns IncomingData.
C8_Witness ==
    /\ last.op = "run_debug_loop"
    /\ mode = "Debug(Continue)"
    /\ last.insns = 2 * POLL_INTERVAL
    /\ last.polled = "true"
    /\ ret = RetOk("IncomingData", Zero)

\* C9: run_debug entered in Debug(Step) executes one instruction and returns
\* DoneStep: its first loop iteration has executed an instruction and has
\* returned.
C9_StepModePauses ==
    (last.op = "run_debug_loop" /\ mode = "Debug(Step)")
        => /\ last.insns = 1
           /\ ret = RetOk("DoneStep", Zero)
           /\ call = "idle"

\* C10: the breakpoint set is a strict set.  set_breakpoint(a) succeeds iff a
\* is absent and then adds exactly a; rm_breakpoint(a) succeeds iff a is
\* present and then removes exactly a; the failures are RepeatedBreakpoint(a)
\* and BreakpointNotFound(a) and leave the set unchanged.
C10_BreakpointsStrictSet ==
    /\ last.op = "set_breakpoint" =>
         IF last.arg \in last.bps
         THEN /\ ret = RetErr(Error("RepeatedBreakpoint", "", last.arg, Zero))
              /\ breakpoints = last.bps
         ELSE /\ ret = RetOk("", Zero)
              /\ breakpoints = last.bps \cup {last.arg}
    /\ last.op = "rm_breakpoint" =>
         IF last.arg \notin last.bps
         THEN /\ ret = RetErr(Error("BreakpointNotFound", "", last.arg, Zero))
              /\ breakpoints = last.bps
         ELSE /\ ret = RetOk("", Zero)
              /\ breakpoints = last.bps \ {last.arg}

\* C10's case: the same address set twice, the second call failing.
C10_Witness ==
    /\ last.op = "set_breakpoint"
    /\ last.arg \in last.bps
    /\ ret.kind = "Err"
    /\ breakpoints = last.bps

\* C11: the mode changes only through the debug controller.  Whenever an
\* operation changes the mode, the operation is resume (to Debug(Continue)),
\* single-step (to Debug(Step)) or the end of a debugger session by
\* disconnect (to Run); a resume or single-step that succeeds leaves that
\* mode; run, step, force_step, run_debug, the breakpoint and watchpoint
\* operations and the register and memory accessors leave the mode as it was.
C11_ModeOnlyByController ==
    [][/\ mode' # mode =>
            \/ last'.op = "resume" /\ mode' = "Debug(Continue)"
            \/ last'.op = "single_step" /\ mode' = "Debug(Step)"
            \/ last'.op = "debug_session_end" /\ mode' = "Run"
       /\ (last'.op = "resume" /\ ret'.kind = "Ok") => mode' = "Debug(Continue)"
       /\ (last'.op = "single_step" /\ ret'.kind = "Ok") => mode' = "Debug(Step)"
       /\ last'.op \in {"run", "run_loop", "step", "force_step", "run_debug",
                        "run_debug_loop", "set_breakpoint", "rm_breakpoint",
                        "add_sw_breakpoint", "remove_sw_breakpoint",
                        "set_watchpoint", "rm_watchpoint", "read_addrs",
                        "write_addrs", "read_registers", "write_registers",
                        "read_register", "write_register"} => mode' = mode
      ]_vars

\* C11's case: registers were written back while the debugger had the
\* emulator in Debug(Continue), a mode only resume can have set, and the
\* mode is still Debug(Continue).
C11_Witness ==
    /\ last.op = "write_registers"
    /\ mode = "Debug(Continue)"
    /\ breakpoints # {}
    /\ watchpoints # {}

\* Whether the byte at gaddr can be read.
Readable(gaddr) == read_u8(guest, gaddr).ok

\* The number of bytes of the range of n bytes at a that can be read before
\* the first one that cannot.
ReadablePrefix(a, n) ==
    CHOOSE k \in 0..n :
        /\ \A i \in 0..(k - 1) : Readable(WrappingAdd(a, U(i)))
        /\ k < n => ~Readable(WrappingAdd(a, U(k)))

C13_SwBreakpointNonFatal ==
    (\/ last.op = "add_sw_breakpoint" /\ last.arg \in last.bps
     \/ last.op = "remove_sw_breakpoint" /\ last.arg \notin last.bps)
        => /\ ret.kind = "Err"
           /\ ret.err.kind \in {"TargetError::NonFatal", "TargetError::Errno"}
           /\ breakpoints = last.bps
           /\ call = "idle"

\* The address lies in the page-aligned range [m_gaddr_start, m_gaddr_end)
\* of the segment.
InPageRange(seg, a) == LeU(seg.m_gaddr_start, a) /\ LtU(a, seg.m_gaddr_end)

\* The keys of the segments of g whose page-aligned range holds a.
SegmentsAt(g, a) == {k \in DOMAIN g.segments : InPageRange(g.segments[k], a)}

\* The flag an access needs.
FlagOf(access) ==
    CASE access = "Read" -> "READ" [] access = "Write" -> "WRITE"
      [] access = "Execute" -> "EXECUTE"

\* C14: a single-byte access (decompose, read_u8, write_u8) of kind A at
\* address a has exactly one outcome.  It succeeds iff a lies in a segment
\* whose flags include A; it returns PermissionDenied iff a lies in a segment
\* whose flags exclude A; it returns MemAccessFault(A, a) iff a lies in no
\* segment; it never panics, and a failed access changes no memory.
C14_AccessOutcome ==
    (last.op \in {"decompose", "read", "write"} /\ last.n = 1) =>
        LET a == last.arg
            at == SegmentsAt(last.mem, a)
            granted == {k \in at : FlagOf(last.access) \in last.mem.segments[k].flags}
        IN  /\ ret.kind \in {"Ok", "Err"}
            /\ ret.kind = "Ok" <=> granted # {}
            /\ ret = RetErr(Error("PermissionDenied", "", Zero, Zero))
                   <=> (at # {} /\ granted = {})
            /\ ret = RetErr(Error("MemAccessFault", last.access, a, Zero)) <=> at = {}
            /\ ret.kind = "Err" => guest = last.mem

\* C15: for every segment s in the table, every address in the page-aligned
\* range [s.m_gaddr_start, s.m_gaddr_end), the padding below an unaligned
\* gaddr_start and above gaddr_end included, resolves to s (decompose with an
\* access s grants returns s) and is read by read_u8 when s grants READ; no
\* address outside every segment's page-aligned range can be read.
C15_PageRangeAddressable ==
    /\ (last.op = "decompose" /\ ret.kind # "Err") =>
          ret.val \in SegmentsAt(guest, last.arg)
    /\ last.op = "decompose" =>
          \A k \in SegmentsAt(guest, last.arg) :
             FlagOf(last.access) \in guest.segments[k].flags
                => ret = RetOk("", k)
    /\ (last.op = "read" /\ last.n = 1) =>
          /\ \A k \in SegmentsAt(guest, last.arg) :
                "READ" \in guest.segments[k].flags => ret.kind = "Ok"
          /\ SegmentsAt(guest, last.arg) = {} => ret.kind = "Err"

\* The first and the last page of the bytes [start, start + len), len > 0.
FirstPage(start) == round_down(start, PAGE_SIZE)
LastPage(start, len) == round_down(WrappingAdd(start, U(len - 1)), PAGE_SIZE)

\* The pages of the bytes [start, start + len) and the pages of a segment
\* have a page in common.
SharesPage(start, len, seg) ==
    /\ LeU(FirstPage(start), LastPage(seg.gaddr_start, ToNat(WrappingSub(seg.gaddr_end, seg.gaddr_start))))
    /\ LeU(seg.m_gaddr_start, LastPage(start, len))

\* C16: any two distinct segments in the table have disjoint page-aligned
\* ranges, and an add_segment whose page-rounded range shares a page with an
\* existing segment (be it only that segment's padding) returns
\* SegmentOverlap, inserts nothing and replaces no entry.
C16_SegmentsDisjoint ==
    /\ \A k1, k2 \in DOMAIN guest.segments :
          k1 # k2 =>
             LET s1 == guest.segments[k1]
                 s2 == guest.segments[k2]
             IN  LeU(s1.m_gaddr_end, s2.m_gaddr_start)
                    \/ LeU(s2.m_gaddr_end, s1.m_gaddr_start)
    /\ (/\ last.op = "add_segment"
        /\ last.n > 0
        /\ ~AddOverflows(last.arg, U(last.n - 1))
        /\ \E k \in DOMAIN last.mem.segments :
              SharesPage(last.arg, last.n, last.mem.segments[k]))
          => /\ ret = RetErr(Error("SegmentOverlap", "", Zero, Zero))
             /\ guest = last.mem

\* C17: add_segment with len = 0 fails with InvalidSegment; with init_data
\* longer than len (and no overlap, which is looked for first) it fails with
\* OutOfBounds; no call panics, and a call that fails leaves the segment
\* table and the contents of the segments as they were.
C17_AddSegmentFailures ==
    last.op = "add_segment" =>
        /\ last.n = 0 => ret = RetErr(Error("InvalidSegment", "", Zero, Zero))
        /\ (/\ last.n > 0
            /\ last.req.has_data /\ Len(last.req.init_data) > last.n
            /\ ~\E k \in DOMAIN last.mem.segments :
                   SharesPage(last.arg, last.n, last.mem.segments[k]))
              => ret = RetErr(Error("OutOfBounds", "", Zero, Zero))
        /\ ret.kind # "Panic"
        /\ ret.kind # "Ok" => guest = last.mem

\* C18: after a successful add_segment(start, len, flags with READ,
\* init_data), read_u8(start + i) is init_data[i] for i < |init_data|, the
\* bytes after the data up to the page-aligned end read 0, and the first
\* address at or past the page-aligned end, when it lies in no other
\* segment, returns MemAccessFault.
C18_InitDataThenZero ==
    (last.op = "add_segment" /\ ret.kind = "Ok" /\ "READ" \in last.req.flags) =>
        LET start == last.arg
            data == last.req.init_data
            end == WrappingAdd(LastPage(start, last.n), U(PAGE_SIZE))
            span == ToNat(WrappingSub(end, start))
            past == read_u8(guest, end)
        IN  /\ \A i \in 1..Len(data) :
                  read_u8(guest, WrappingAdd(start, U(i - 1))) =
                      [ok |-> TRUE, err |-> NoError, val |-> data[i]]
            /\ \A i \in {Len(data), Len(data) + 1, last.n - 1, last.n, span - 1} :
                  (Len(data) <= i /\ i < span) =>
                      read_u8(guest, WrappingAdd(start, U(i))) =
                          [ok |-> TRUE, err |-> NoError, val |-> 0]
            /\ SegmentsAt(guest, end) = {} =>
                  (~past.ok /\ past.err = Error("MemAccessFault", "Read", end, Zero))

\* The value of the low n bytes of v.
LowBytes(v, n) == FromLeBytes([i \in 1..n |-> ByteOf(v, i - 1)])

\* The keys of the READ|WRITE segments of g whose page-aligned range holds
\* all of [a, a + n).
RWSegmentsOf(g, a, n) ==
    {k \in DOMAIN g.segments :
        /\ {"READ", "WRITE"} \subseteq g.segments[k].flags
        /\ \A i \in 0..(n - 1) : InPageRange(g.segments[k], WrappingAdd(a, U(i)))}

\* C19: write_uN(a, v) with [a, a + N/8) inside a single READ|WRITE segment
\* succeeds, and then read_uN(a) returns v; the byte at a + i holds bits
\* 8i..8i+7 of v; every byte outside [a, a + N/8) is as it was (so a later
\* overlapping write changes exactly the bytes it covers); and a read_uN
\* returns the little-endian value of the bytes in memory.
C19_WriteReadRoundTrip ==
    /\ (last.op = "write" /\ RWSegmentsOf(last.mem, last.arg, last.n) # {}) =>
          LET a == last.arg
              n == last.n
              k == CHOOSE key \in RWSegmentsOf(last.mem, a, n) : TRUE
              old == last.mem.segments[k].host_mmap
              new == guest.segments[k].host_mmap
              off == ToNat(WrappingSub(a, guest.segments[k].m_gaddr_start))
          IN  /\ ret = RetOk("", Zero)
              /\ ReadUN(guest, a, n) =
                    [ok |-> TRUE, err |-> NoError, val |-> LowBytes(last.val, n)]
              /\ \A i \in 0..(n - 1) :
                    read_u8(guest, WrappingAdd(a, U(i))) =
                        [ok |-> TRUE, err |-> NoError, val |-> ByteOf(last.val, i)]
              /\ \A o \in (DOMAIN old \cup DOMAIN new) \ (off..(off + n - 1)) :
                    HostByte(new, o) = HostByte(old, o)
              /\ \A j \in DOMAIN guest.segments \ {k} :
                    guest.segments[j] = last.mem.segments[j]
    /\ (last.op = "read" /\ ret.kind = "Ok") =>
          ret.val = FromLeBytes([i \in 1..last.n |->
                        read_u8(guest, WrappingAdd(last.arg, U(i - 1))).val])

\* The PT_LOAD headers of an ELF file, by their index.
LoadHeaders(elf) == {i \in DOMAIN elf.phdrs : elf.phdrs[i].p_type = PT_LOAD}

\* The segment is the one a PT_LOAD header asks for: at p_vaddr, p_memsz
\* long, with READ / WRITE / EXECUTE as PF_R / PF_W / PF_X are set, holding
\* the file bytes and zeros after them.
SegmentOfHeader(seg, h) ==
    /\ seg.gaddr_start = h.p_vaddr
    /\ seg.gaddr_end = WrappingAdd(h.p_vaddr, U(h.p_memsz))
    /\ "READ" \in seg.flags <=> (h.p_flags \div 4) % 2 = 1
    /\ "WRITE" \in seg.flags <=> (h.p_flags \div 2) % 2 = 1
    /\ "EXECUTE" \in seg.flags <=> h.p_flags % 2 = 1
    /\ seg.flags \subseteq {"READ", "WRITE", "EXECUTE"}
    /\ LET off == ToNat(WrappingSub(h.p_vaddr, seg.m_gaddr_start))
       IN  \A o \in 0..(off + h.p_memsz) :
              HostByte(seg.host_mmap, o) =
                  IF off <= o /\ o < off + Len(h.data) THEN h.data[o - off + 1] ELSE 0

\* C20: after a successful load_elf (into a fresh guest memory) the value
\* returned is e_entry; the initial and the current break are the greatest
\* m_gaddr_end of the segments (0 when there is none); every PT_LOAD header
\* has produced exactly one segment, its own, and the headers of other types
\* none: the segments are as many as the PT_LOAD headers and each header has
\* its segment.
C20_LoadElfSegments ==
    (last.op = "load_elf" /\ ret.kind = "Ok") =>
        LET elf == last.elf
            keys == DOMAIN guest.segments
            ends == {guest.segments[k].m_gaddr_end : k \in keys}
        IN  /\ ret = RetOk("", elf.e_entry)
            /\ guest.init_brk_gaddr = guest.cur_brk_gaddr
            /\ \A e \in ends : LeU(e, guest.init_brk_gaddr)
            /\ IF ends = {} THEN guest.init_brk_gaddr = Zero
               ELSE guest.init_brk_gaddr \in ends
            /\ Cardinality(keys) = Cardinality(LoadHeaders(elf))
            /\ \A i \in LoadHeaders(elf) :
                  \E k \in keys : SegmentOfHeader(guest.segments[k], elf.phdrs[i])


\* The ELF file is one load_elf must refuse: shorter than a header, a header
\* with a bad magic, class or machine, a PT_LOAD header whose file bytes lie
\* outside the file, or PT_LOAD headers add_segment refuses (more file bytes
\* than memory, two segments in one page).
RefusedElf(elf) ==
    \/ ~elf.long
    \/ ~elf.valid
    \/ \E i \in LoadHeaders(elf) :
          \/ ~elf.phdrs[i].in_file
          \/ Len(elf.phdrs[i].data) > elf.phdrs[i].p_memsz
          \/ \E j \in LoadHeaders(elf) :
                /\ i # j
                /\ FirstPage(elf.phdrs[i].p_vaddr) = FirstPage(elf.phdrs[j].p_vaddr)
                /\ elf.phdrs[i].p_vaddr[4] = 0

\* C21: load_elf of a file that is too short, has a bad header, names file
\* bytes outside the buffer or makes add_segment fail returns the error
\* InvalidElf: an error value, not a panic, and of no other kind.
C21_LoadElfInvalid ==
    (last.op = "load_elf" /\ RefusedElf(last.elf)) =>
        ret = RetErr(Error("InvalidElf", "", Zero, Zero))


\* The addresses of a stack of the given size probed: its first two bytes,
\* its middle and its last byte.
StackProbes(size) ==
    { WrappingSub(STACK_TOP, U(size)), WrappingSub(STACK_TOP, U(size - 1)),
      WrappingSub(STACK_TOP, U((size \div 2) + 1)), WrappingSub(STACK_TOP, U(1)) }

\* C22: after a successful Emulator::load_elf the pc is the entry of the ELF
\* file, x[2] is 0x8000_0000, one segment with exactly READ and WRITE starts
\* at 0x8000_0000 - stack_size and ends at 0x8000_0000, and the bytes of that
\* range can be read and written (0x8000_0000 itself cannot).
C22_LoadElfStack ==
    (last.op = "load_elf" /\ ret.kind = "Ok") =>
        /\ state.pc = last.elf.e_entry
        /\ state.x[2] = STACK_TOP
        /\ Cardinality({k \in DOMAIN guest.segments :
              /\ guest.segments[k].gaddr_start = WrappingSub(STACK_TOP, U(stack_size))
              /\ guest.segments[k].gaddr_end = STACK_TOP
              /\ guest.segments[k].flags = {"READ", "WRITE"}}) = 1
        /\ \A a \in StackProbes(stack_size) :
              /\ read_u8(guest, a).ok
              /\ write_u8(guest, a, 90).ok
              /\ read_u8(write_u8(guest, a, 90).guest, a).val = 90
        /\ ~read_u8(guest, STACK_TOP).ok

\* A program was loaded with a stack that is not a number of pages, a page,
\* and the default 8 MiB.
C22_Witness ==
    /\ last.op = "load_elf"
    /\ ret.kind = "Ok"
    /\ stack_size \in {6144, STACK_SIZE}
    /\ Cardinality(DOMAIN guest.segments) = 3


\* The InsnSets Hart::add_decoder has a decoder for.
Decodable == {"I", "Zifencei", "Ziscr"}

\* C23: build fails when no syscall handler was given; a requested InsnSet
\* without a decoder makes it fail with InsnSetUnimplemented(set); otherwise
\* it returns an emulator whose decoders are those of the decoder(set) calls
\* in order, with no breakpoint, an empty guest memory, and the mode Run
\* unless debug() was called, then Debug(Step).
C23_BuildOutcome ==
    last.op = "build" =>
        LET b == last.builder
            missing == {i \in DOMAIN b.decoders : b.decoders[i] \notin Decodable}
            first == CHOOSE i \in missing : \A j \in missing : i <= j
        IN  CASE ~b.syscall -> ret.kind = "Err"
              [] missing # {} ->
                    ret = RetErr(Error("InsnSetUnimplemented", b.decoders[first],
                                       Zero, Zero))
              [] OTHER ->
                    /\ ret.kind = "Ok"
                    /\ decoders = b.decoders
                    /\ breakpoints = {}
                    /\ guest = GuestMemNew
                    /\ mode = b.mode
                    /\ mode \in {"Run", "Debug(Step)"}


\* hart.step was called by the last step or force_step, and fetched a word no
\* registered decoder claims.
FetchedUnclaimed ==
    /\ last.op \in {"step", "force_step"}
    /\ last.hart.kind # "None"
    /\ last.pre.pc[1] % 2 = 0
    /\ LET fetch == read_u32(last.mem, last.pre.pc)
       IN  /\ fetch.ok
           /\ \A i \in DOMAIN decoders :
                 DecoderDecode(decoders[i], fetch.val).kind = "None"

\* C24: when no registered decoder claims the word fetched, the step fails
\* with UnknownInsn(raw, pc), raw the word fetched and pc the address it was
\* fetched from, and no executor runs.
C24_UnknownInsn ==
    FetchedUnclaimed =>
        /\ ret = RetErr(Error("UnknownInsn", "", read_u32(last.mem, last.pre.pc).val,
                              last.pre.pc))
        /\ last.hart.executor = ""
        /\ state = [last.pre EXCEPT !.x[0] = Zero, !.break_on = "None"]
        /\ guest = last.mem


\* The flags of the segment the pc of the last step or force_step lay in, for
\* a step that called hart.step with an aligned pc whose four bytes lie in
\* one segment.
FetchFlags ==
    LET segs == {k \in DOMAIN last.mem.segments :
                    /\ contains(last.mem.segments[k], last.pre.pc)
                    /\ contains(last.mem.segments[k], WrappingAdd(last.pre.pc, U(3)))}
    IN  IF /\ last.op \in {"step", "force_step"}
           /\ last.hart.kind # "None"
           /\ last.pre.pc[1] % 2 = 0
           /\ segs # {}
        THEN {last.mem.segments[k].flags : k \in segs}
        ELSE {}

\* C25: a step whose pc lies in a segment without EXECUTE fails with
\* PermissionDenied and executes nothing, readable or not; a step whose pc
\* lies in a segment with EXECUTE fetches the word, readable or not.
C25_FetchByExecute ==
    \A flags \in FetchFlags :
        IF "EXECUTE" \notin flags
        THEN /\ ret = RetErr(Error("PermissionDenied", "", Zero, Zero))
             /\ last.hart.executor = ""
             /\ guest = last.mem
        ELSE \/ last.hart.executor # ""
             \/ ret.kind = "Panic"
             \/ ret.kind = "Err" /\ ret.err.kind \notin {"PermissionDenied", "MemAccessFault"}


\* The bit of the instruction word that the standard layout of the form puts
\* at bit i of the immediate, or -1 where the immediate has no bit.
ImmSource(insn_type, i) ==
    CASE insn_type = "I" -> IF i <= 11 THEN 20 + i ELSE -1
      [] insn_type = "S" -> IF i <= 4 THEN 7 + i ELSE IF i <= 11 THEN 20 + i ELSE -1
      [] insn_type = "B" ->
            IF i = 0 THEN -1
            ELSE IF i <= 4 THEN 7 + i
            ELSE IF i <= 10 THEN 20 + i
            ELSE IF i = 11 THEN 7
            ELSE IF i = 12 THEN 31 ELSE -1
      [] insn_type = "U" -> IF 12 <= i /\ i <= 31 THEN i ELSE -1
      [] insn_type = "J" ->
            IF i = 0 THEN -1
            ELSE IF i <= 10 THEN 20 + i
            ELSE IF i = 11 THEN 20
            ELSE IF i <= 19 THEN i
            ELSE IF i = 20 THEN 31 ELSE -1

\* The width the immediate of a form is sign-extended from.
ImmWidth(insn_type) ==
    CASE insn_type \in {"I", "S"} -> 12
      [] insn_type = "B" -> 13
      [] insn_type = "U" -> 32
      [] insn_type = "J" -> 21

\* C26: extract_imm returns the immediate bits of the form's standard layout,
\* zero-extended (no bit set at or above the form's width, none above bit
\* 31); the B and J immediates are even and below 2^13 and 2^21, the U
\* immediate has bits 11:0 clear; and sign-extending the immediates of the
\* test words from the form's width gives the values expected.
C26_ExtractImm ==
    last.op = "extract_imm" =>
        LET imm == last.imm
            form == last.insn_type
        IN  /\ \A i \in 0..63 :
                  Bit(imm, i) = IF ImmSource(form, i) = -1 THEN 0
                                ELSE Bit(last.raw, ImmSource(form, i))
            /\ \A i \in ImmWidth(form)..63 : Bit(imm, i) = 0
            /\ form \in {"B", "J"} => Bit(imm, 0) = 0
            /\ form = "B" => imm[2] = 0 /\ imm[1] < 8192
            /\ form = "J" => imm[2] < 32
            /\ form = "U" => imm[1] % 4096 = 0
            /\ ret = RetOk("", imm)
            /\ \A e \in ImmExamples :
                  (e[1] = last.raw /\ e[2] = form) =>
                      sign_extend(imm, ImmWidth(form)) = e[3]

\* The B immediate of bne with offset -4 (bits 12 and 11 set) was extracted.
C26_Witness ==
    /\ last.op = "extract_imm"
    /\ last.raw = W(65489, 7907)
    /\ last.insn_type = "B"
    /\ sign_extend(last.imm, 13) = <<65532, 65535, 65535, 65535>>


\* C27: when force_step fetches an ecall with the I decoder registered, the
\* minimal handler dispatches on x[17]: 0 and 93 exit with the status x[10];
\* 1 (putchar) and 2 (puts) return success with the pc after the ecall and
\* the memory as they were; any other number n fails with
\* SyscallUnimplemented(n, pc), pc the one the handler was called with.
C27_MinilibDispatch ==
    (/\ last.op = "force_step"
     /\ last.hart.kind # "None"
     /\ last.hart.raw = ECALL
     /\ \E i \in DOMAIN decoders : decoders[i] = "I")
        => LET n == last.pre.x[17]
               after == WrappingAdd(last.hart.cur_pc, U(4))
           IN  /\ last.handled = 1
               /\ CASE n \in {U(SYS_EXIT), U(93)} ->
                         /\ ret.kind = "Err"
                         /\ ret.err.kind \in {"Exit", "Exited"}
                         /\ ret.err.v = last.pre.x[10]
                    [] n \in {U(SYS_PUTCHAR), U(SYS_PUTS)} ->
                         /\ ret.kind = "Ok"
                         /\ state.pc = after
                         /\ guest = last.mem
                    [] OTHER ->
                         ret = RetErr(Error("SyscallUnimplemented", "", n, after))


\* The registered decoders that return Some for the word, by their index.
Claimers(raw) ==
    {i \in DOMAIN decoders : DecoderDecode(decoders[i], raw).kind = "Some"}

\* C28: when a step fetches a word that some registered decoder claims, the
\* word is decoded by the first such decoder in registration order, whatever
\* the decoders before it are, and its executor runs: the step neither fails
\* nor crashes in an earlier decoder.
C28_FirstClaimerDecodes ==
    (/\ last.op \in {"step", "force_step"}
     /\ last.hart.kind # "None"
     /\ last.pre.pc[1] % 2 = 0
     /\ read_u32(last.mem, last.pre.pc).ok
     /\ Claimers(read_u32(last.mem, last.pre.pc).val) # {})
        => LET raw == read_u32(last.mem, last.pre.pc).val
               first == CHOOSE i \in Claimers(raw) : \A j \in Claimers(raw) : i <= j
           IN  /\ last.hart.raw = raw
               /\ last.hart.executor = DecoderDecode(decoders[first], raw).executor
               /\ last.hart.executor # ""


Branches ==
    {"rv64i_beq", "rv64i_bne", "rv64i_blt", "rv64i_bge", "rv64i_bltu", "rv64i_bgeu"}

\* C29: a step that completes a branch ends, when the branch is taken (by
\* the signed comparison for blt and bge, the unsigned one for bltu and
\* bgeu), at pc + sign_extend(imm_b, 13) with wrapping addition, whatever the
\* 13-bit immediate; when it is not taken, at pc + 4.
C29_BranchTarget ==
    (StepCompleted /\ last.hart.executor \in Branches) =>
        IF LastBranchTaken
        THEN state.pc = WrappingAdd(last.hart.cur_pc,
                                    sign_extend(extract_imm(last.hart.raw, "B"), 13))
        ELSE state.pc = NextPc


\* C30: after a step that completes a taken branch, a jal, a jalr or an mret
\* the pc is the target the executor wrote, whatever the target, the address
\* of the instruction itself included.
C30_JumpTargetStays ==
    (/\ StepCompleted
     /\ last.hart.executor \in Branches \cup {"rv64i_jal", "rv64i_jalr", "priv_mret"}
     /\ LastBranchTaken)
        => /\ state.pc = last.hart.exec_pc
           /\ last.hart.executor = "rv64i_jal" =>
                 state.pc = WrappingAdd(last.hart.cur_pc,
                                sign_extend(extract_imm(last.hart.raw, "J"), 21))
           /\ last.hart.executor = "priv_mret" => state.pc = MEPC


\* The registers a step's executor saw: those before the step, x[0] cleared.
LastX == [last.pre.x EXCEPT ![0] = Zero]

\* C31: a step that completes a jal ends at pc + sign_extend(imm_j, 21); one
\* that completes a jalr ends at (x[rs1] + sign_extend(imm_i, 12)) & ~1, with
\* the x[rs1] of before the instruction also when rd = rs1; both leave the
\* address of the next instruction, pc + 4, in x[rd]; the additions wrap.
C31_JumpAndLink ==
    (StepCompleted /\ last.hart.executor \in {"rv64i_jal", "rv64i_jalr"}) =>
        LET raw == last.hart.raw
            rd  == BitsOf(raw, 7, 5)
            rs1 == BitsOf(raw, 15, 5)
        IN  /\ last.hart.executor = "rv64i_jal" =>
                  state.pc = WrappingAdd(last.hart.cur_pc,
                                 sign_extend(extract_imm(raw, "J"), 21))
            /\ last.hart.executor = "rv64i_jalr" =>
                  state.pc = And64(WrappingAdd(LastX[rs1],
                                        sign_extend(extract_imm(raw, "I"), 12)),
                                   Not64(U(1)))
            /\ state.x[rd] = NextPc


\* C32: a step that completes a lui leaves sign_extend(imm_u, 32) in x[rd]
\* (the upper 32 bits all ones when bit 31 of the immediate is set); one that
\* completes an auipc leaves pc + sign_extend(imm_u, 32), wrapping.
C32_UpperImmediate ==
    (StepCompleted /\ last.hart.executor \in {"rv64i_lui", "rv64i_auipc"}) =>
        LET raw   == last.hart.raw
            rd    == BitsOf(raw, 7, 5)
            imm_u == sign_extend(extract_imm(raw, "U"), 32)
        IN  state.x[rd] = IF last.hart.executor = "rv64i_lui" THEN imm_u
                          ELSE WrappingAdd(last.hart.cur_pc, imm_u)


\* The shift encodings of RV64I with an immediate amount: slli (funct3 1,
\* funct6 0), srli (funct3 5, funct6 0) and srai (funct3 5, funct6 16), the
\* amount in bits 20..25.
ShiftImmWord(raw) ==
    /\ BitsOf(raw, 0, 7) = RV64I_OPCODE_OP_IMM
    /\ \/ BitsOf(raw, 12, 3) = 1 /\ BitsOf(raw, 26, 6) = 0
       \/ BitsOf(raw, 12, 3) = 5 /\ BitsOf(raw, 26, 6) \in {0, 16}

\* C33: the 64-bit shifts shift by the low 6 bits of their amount (bits
\* 20..25 of the word, or x[rs2]), sra and srai arithmetically, srl and srli
\* logically, and a shift by 32..63 is stepped as any other; the word shifts
\* shift by the low 5 bits.
C33_ShiftAmounts ==
    LET raw == last.hart.raw
        rd  == BitsOf(raw, 7, 5)
        a   == LastX[BitsOf(raw, 15, 5)]
        n   == IF BitsOf(raw, 0, 7) = RV64I_OPCODE_OP
               THEN BitsOf(LastX[BitsOf(raw, 20, 5)], 0, 6)
               ELSE BitsOf(raw, 20, 6)
        e   == last.hart.executor
        w   == rv64i_sllw(state, guest, LastInsnAs("R")).state.x[rd]
    IN  /\ (last.hart.kind # "None" /\ ShiftImmWord(raw)) =>
               /\ StepCompleted
               /\ e \in {"rv64i_slli", "rv64i_srli", "rv64i_srai"}
        /\ (StepCompleted /\ e \in {"rv64i_slli", "rv64i_sll"}) =>
               state.x[rd] = Shl64(a, n)
        /\ (StepCompleted /\ e \in {"rv64i_srli", "rv64i_srl"}) =>
               state.x[rd] = Shr64(a, n)
        /\ (StepCompleted /\ e \in {"rv64i_srai", "rv64i_sra"}) =>
               state.x[rd] = Sar64(a, n)
        /\ StepCompleted =>
               w = sign_extend(Shl64(zero_extend(state.x[BitsOf(raw, 15, 5)], 32),
                                     BitsOf(state.x[BitsOf(raw, 20, 5)], 0, 5)), 32)


\* The executor of a word instruction, by its encoding: addiw, slliw, srliw
\* and sraiw under opcode 0b0011011, addw, subw, sllw, srlw and sraw under
\* RV64I_OPCODE_WORD; "" for any other word.
WordExecutor(raw) ==
    LET opcode == BitsOf(raw, 0, 7)
        funct3 == BitsOf(raw, 12, 3)
        funct7 == BitsOf(raw, 25, 7)
    IN  CASE opcode = 27 /\ funct3 = 0 -> "rv64i_addiw"
          [] opcode = 27 /\ funct3 = 1 /\ funct7 = 0 -> "rv64i_slliw"
          [] opcode = 27 /\ funct3 = 5 /\ funct7 = 0 -> "rv64i_srliw"
          [] opcode = 27 /\ funct3 = 5 /\ funct7 = 32 -> "rv64i_sraiw"
          [] opcode = RV64I_OPCODE_WORD /\ funct3 = 0 /\ funct7 = 0 -> "rv64i_addw"
          [] opcode = RV64I_OPCODE_WORD /\ funct3 = 0 /\ funct7 = 32 -> "rv64i_subw"
          [] opcode = RV64I_OPCODE_WORD /\ funct3 = 1 /\ funct7 = 0 -> "rv64i_sllw"
          [] opcode = RV64I_OPCODE_WORD /\ funct3 = 5 /\ funct7 = 0 -> "rv64i_srlw"
          [] opcode = RV64I_OPCODE_WORD /\ funct3 = 5 /\ funct7 = 32 -> "rv64i_sraw"
          [] OTHER -> ""

\* C34: with the I decoder registered, a step that fetches a word
\* instruction decodes it and completes, and x[rd] is the 32-bit result of
\* the operation on the low 32 bits of the operands, sign-extended to 64 bits.
C34_WordInstructions ==
    (/\ last.hart.kind # "None"
     /\ WordExecutor(last.hart.raw) # ""
     /\ \E i \in 1..Len(decoders) : decoders[i] = "I")
        => LET e    == WordExecutor(last.hart.raw)
               pre  == [last.pre EXCEPT !.x[0] = Zero, !.break_on = "None"]
               insn == LastInsnAs(IF BitsOf(last.hart.raw, 0, 7) = 27 THEN "I" ELSE "R")
               rd   == BitsOf(last.hart.raw, 7, 5)
           IN  /\ StepCompleted
               /\ last.hart.executor = e
               /\ state.x[rd] = Execute(e, pre, last.mem, insn, MEPC).state.x[rd]
               /\ state.x[rd] = sign_extend(state.x[rd], 32)


\* The byte of guest memory at an address, whatever the permissions of its
\* segment; -1 where no segment's pages hold the address.
ByteAt(g, addr) ==
    LET ks == {k \in DOMAIN g.segments : InPageRange(g.segments[k], addr)}
        k  == CHOOSE key \in ks : TRUE
    IN  IF ks = {} THEN -1
        ELSE HostByte(g.segments[k].host_mmap,
                      ToNat(WrappingSub(addr, g.segments[k].m_gaddr_start)))

\* The bytes the last write was asked to write, in order.
LastWritten ==
    IF last.op = "write" THEN [i \in 1..last.n |-> ByteOf(last.val, i - 1)]
    ELSE last.buf

\* The indexes (from 0) of the bytes of the last write or read whose access
\* the memory refuses.
LastRefused(access) ==
    LET n == IF last.op = "write_addrs" THEN Len(last.buf) ELSE last.n
    IN  {i \in 0..(n - 1) :
            ~decompose(last.mem, WrappingAdd(last.arg, U(i)), access).ok}

\* C35: a write_uN, or a debugger write of a range, some byte of which the
\* memory refuses returns the error of the first such byte; the bytes before
\* it are written and stay so, that byte and the ones after it, and every
\* other byte of memory, are as they were.  A read_uN some byte of which the
\* memory refuses returns the error of the first such byte and nothing else.
C35_PartialWrite ==
    /\ (last.op \in {"write", "write_addrs"} /\ LastRefused("Write") # {}) =>
          LET a == last.arg
              k == CHOOSE i \in LastRefused("Write") :
                       \A j \in LastRefused("Write") : i <= j
              e == decompose(last.mem, WrappingAdd(a, U(k)), "Write").err
          IN  /\ ret.kind = "Err"
              /\ last.op = "write" => ret.err = e
              /\ \A i \in 0..(k - 1) :
                    ByteAt(guest, WrappingAdd(a, U(i))) = LastWritten[i + 1]
              /\ \A i \in k..(Len(LastWritten) - 1) :
                    ByteAt(guest, WrappingAdd(a, U(i))) =
                        ByteAt(last.mem, WrappingAdd(a, U(i)))
              /\ \A p \in PartialAddrs, d \in 0..7 :
                    (\A i \in 0..(k - 1) : WrappingAdd(p, U(d)) # WrappingAdd(a, U(i)))
                        => ByteAt(guest, WrappingAdd(p, U(d))) =
                               ByteAt(last.mem, WrappingAdd(p, U(d)))
    /\ (last.op = "read" /\ LastRefused("Read") # {}) =>
          LET k == CHOOSE i \in LastRefused("Read") :
                       \A j \in LastRefused("Read") : i <= j
          IN  /\ ret = RetErr(decompose(last.mem, WrappingAdd(last.arg, U(k)), "Read").err)
              /\ guest = last.mem


\* C36: every segment in the table has gaddr_start < gaddr_end, lies within
\* its page-aligned range, whose start is gaddr_start rounded down to a
\* multiple of 4096 and whose end is gaddr_end rounded up to one (gaddr_end
\* itself when it is a multiple, else the next multiple), is keyed by
\* m_gaddr_start, and has a host mapping of m_gaddr_end - m_gaddr_start bytes.
C36_SegmentShape ==
    \A k \in DOMAIN guest.segments :
        LET s == guest.segments[k]
        IN  /\ LtU(s.gaddr_start, s.gaddr_end)
            /\ LeU(s.m_gaddr_start, s.gaddr_start)
            /\ LeU(s.gaddr_end, s.m_gaddr_end)
            /\ s.m_gaddr_start[1] % PAGE_SIZE = 0
            /\ LtU(WrappingSub(s.gaddr_start, s.m_gaddr_start), U(PAGE_SIZE))
            /\ s.m_gaddr_end[1] % PAGE_SIZE = 0
            /\ LtU(WrappingSub(s.m_gaddr_end, s.gaddr_end), U(PAGE_SIZE))
            /\ k = s.m_gaddr_start
            /\ WrappingAdd(s.m_gaddr_start, s.m_len) = s.m_gaddr_end


\* What reading a string from ptr on meets within the first 16 bytes: the
\* error kind of the first byte that cannot be read, "nul" when a NUL comes
\* first, "" when neither does.
StringMeets(g, ptr) ==
    LET At(i) == read_u8(g, WrappingAdd(ptr, U(i)))
        stops == {i \in 0..15 : ~At(i).ok \/ At(i).val = 0}
        k == CHOOSE i \in stops : \A j \in stops : i <= j
    IN  IF stops = {} THEN ""
        ELSE IF At(k).ok THEN "nul" ELSE At(k).err.kind

\* C37: when a forced step fetches an ecall with the I decoder registered
\* and x[17] = 2 (puts), and reading the string at x[10] meets an unmapped
\* byte, the step returns success with pc after the ecall, x[0] = u64::MAX,
\* x[1..31] and the memory as they were; when it meets a byte of a segment
\* without READ, the step fails.
C37_PutsFault ==
    (/\ last.op \in {"step", "force_step"}
     /\ last.hart.kind # "None"
     /\ last.hart.raw = ECALL
     /\ \E i \in DOMAIN decoders : decoders[i] = "I"
     /\ last.pre.x[17] = U(SYS_PUTS))
        => LET meets == StringMeets(last.mem, last.pre.x[10])
           IN  /\ meets = "MemAccessFault" =>
                     /\ ret.kind = "Ok"
                     /\ last.handled = 1
                     /\ state.pc = WrappingAdd(last.pre.pc, U(4))
                     /\ state.x[0] = AllOnes
                     /\ \A r \in 1..31 : state.x[r] = last.pre.x[r]
                     /\ guest = last.mem
               /\ meets = "PermissionDenied" => ret.kind = "Err"


\* The number of bytes a load executor reads.
LoadBytes(e) ==
    CASE e \in {"rv64i_lb", "rv64i_lbu"} -> 1
      [] e \in {"rv64i_lh", "rv64i_lhu"} -> 2
      [] e \in {"rv64i_lw", "rv64i_lwu"} -> 4

\* C38: a step that completes lb, lh or lw leaves in x[rd] the 8, 16 or 32
\* bits loaded from x[rs1] + sign_extend(imm_i, 12) (wrapping) sign-extended
\* to 64 bits; one that completes lbu, lhu or lwu leaves them zero-extended.
C38_LoadExtension ==
    (/\ StepCompleted
     /\ last.hart.executor \in {"rv64i_lb", "rv64i_lh", "rv64i_lw",
                                "rv64i_lbu", "rv64i_lhu", "rv64i_lwu"})
        => LET raw  == last.hart.raw
               e    == last.hart.executor
               n    == LoadBytes(e)
               addr == WrappingAdd(LastX[BitsOf(raw, 15, 5)],
                                   sign_extend(extract_imm(raw, "I"), 12))
               val  == FromLeBytes([i \in 1..n |->
                           ByteAt(last.mem, WrappingAdd(addr, U(i - 1)))])
           IN  state.x[BitsOf(raw, 7, 5)] =
                   IF e \in {"rv64i_lb", "rv64i_lh", "rv64i_lw"}
                   THEN sign_extend(val, 8 * n)
                   ELSE val


\* C39: an iteration of run() steps the hart at the current pc whether or
\* not that pc is in the breakpoint set, which it leaves as it is, calls no
\* poller, and if it returns Ok the reason is Exited: it never returns
\* DoneStep, BreakpointHit or IncomingData.
C39_RunIgnoresBreakpoints ==
    last.op = "run_loop" =>
        /\ mode = "Run"
        /\ last.hart.kind # "None"
        /\ last.hart.cur_pc = last.pre.pc
        /\ last.polled = "None"
        /\ breakpoints = last.bps
        /\ ret.kind = "Ok" => ret.reason = "Exited"
        /\ ret.reason \notin {"DoneStep", "BreakpointHit", "IncomingData"}
        /\ ret.kind = "Err" => ret.err.kind # "BreakpointHit"

\* run() has executed the instruction at an address of the breakpoint set.
C39_Witness ==
    /\ last.op = "run_loop"
    /\ last.pre.pc \in last.bps
    /\ StepCompleted
    /\ state.pc # last.pre.pc


\* C40: when the hart step of the last operation failed, pc and x[1..31] are
\* as they were before it (a failed load has not written rd), the trap latch
\* is clear and no syscall was dispatched; memory differs from what it was
\* only after a store of more than one byte.
C40_FailedStepFrame ==
    last.hart.kind = "Err" =>
        /\ state.pc = last.pre.pc
        /\ \A r \in 1..31 : state.x[r] = last.pre.x[r]
        /\ state.break_on = "None"
        /\ last.hart.cause = "None"
        /\ last.handled = 0
        /\ guest # last.mem =>
              last.hart.executor \in {"rv64i_sh", "rv64i_sw", "rv64i_sd"}

\* A store has failed after it wrote its first bytes.
C40_Witness ==
    /\ last.hart.kind = "Err"
    /\ last.hart.executor = "rv64i_sd"
    /\ guest # last.mem
    /\ state.pc = W(1, 4)

=============================================================================
